---- MODULE Spec2Model ----
(***************************************************************************)
(* Belief tracker of the werewolf PlayerAgent                              *)
(* (src/examples/game/werewolves/agent.py).                                *)
(*                                                                         *)
(* A message is a speaker name and a text.  A text is modelled as the      *)
(* sequence of the phrases it is made of, on one line: player identifiers  *)
(* ("Player1", ...) and the marker phrases the extractor looks for.  The   *)
(* substring tests and regular expressions of the source become operators  *)
(* over that sequence.  Chinese phrases are written in pinyin with the     *)
(* prefix "cn:".  The phrases of a text are separated by a space, except   *)
(* that nothing separates "cn:chayan" / "cn:chayan le" from the phrase     *)
(* that follows it (the source matches the player id right after it).      *)
(*                                                                         *)
(* Modelled: the fields of __init__ that _extract_game_info and            *)
(* _evaluate_seer_credibility read or write.  Left out: opponent_profiles  *)
(* (written by _update_opponent_profile only, read by none of the          *)
(* operators below), strategy_weights, game_history and the language-model *)
(* call of reply.                                                          *)
(*                                                                         *)
(* Scores are kept in hundredths (0.25 is 25): every increment of the      *)
(* source is a multiple of 0.05, and on the sums the model reaches the     *)
(* float comparisons (< 0.3, > 0.6, clamping at 0.0) agree with the exact  *)
(* ones.                                                                   *)
(***************************************************************************)
EXTENDS Integers, Sequences, FiniteSets, TLC

VARIABLES role, teammates, known_roles, suspicions, dead_players,
          pending_dead_players, alive_players, voting_history,
          speech_patterns, round_num, phase, claimed_roles, my_position,
          seer_claims, wolf_checks, speech_order,
          msg,      \* the message observed last (history)
          cred,     \* the last results of _evaluate_seer_credibility
          returned, \* what the last call of _build_context,
                    \* _get_phase_advice, get_game_state_debug, reply or
                    \* predict_opponent_role returned
          opponent_profiles  \* self.opponent_profiles, in the
                    \* specifications that follow the profiles

vars == <<role, teammates, known_roles, suspicions, dead_players,
          pending_dead_players, alive_players, voting_history,
          speech_patterns, round_num, phase, claimed_roles, my_position,
          seer_claims, wolf_checks, speech_order, msg, cred, returned,
          opponent_profiles>>

-----------------------------------------------------------------------------
(* Names *)

\* self.name of the agent under study
Me == "Player1"

Moderator == "Moderator"

\* the words the pattern Player\d+ matches
PlayerIds == {"Player1", "Player2", "Player3", "Player4", "Player5",
              "Player6", "Player7", "Player8", "Player9"}

\* role is None
NoRole == "None"

NoMsg == [name |-> "None", content |-> <<>>]

\* none of the calls recorded in `returned` has been made
NothingReturned == [call |-> "None"]

-----------------------------------------------------------------------------
(* Dictionaries: a function whose domain is the set of keys present *)

EmptyDict == <<>>

Get(d, k, default) == IF k \in DOMAIN d THEN d[k] ELSE default

Put(d, k, v) == [x \in (DOMAIN d) \cup {k} |-> IF x = k THEN v ELSE d[x]]

\* p in list
InSeq(s, x) == \E i \in 1..Len(s) : s[i] = x

\* set(list)
SeqSet(s) == {s[i] : i \in 1..Len(s)}

\* list.index(x) + 1, for x in list
IndexOf(s, x) == CHOOSE i \in 1..Len(s) : s[i] = x /\ \A j \in 1..(i - 1) : s[j] # x

\* list.remove(x): drops the first occurrence only
RemoveFirst(s, x) ==
    IF InSeq(s, x)
    THEN LET i == IndexOf(s, x)
         IN  [j \in 1..(Len(s) - 1) |-> IF j < i THEN s[j] ELSE s[j + 1]]
    ELSE s

\* the list without the members of S
Without(s, S) == LET Out(x) == x \notin S IN SelectSeq(s, Out)

\* no element occurs twice in the list
NoDuplicates(s) == \A i, j \in 1..Len(s) : s[i] = s[j] => i = j

-----------------------------------------------------------------------------
(* Text matching *)

\* a player id of MaxIdDigits digits
LongId == "Player9...9"

IsPlayerTok(t) == t \in PlayerIds \cup {LongId}

\* speaker.startswith("Player")
StartsWithPlayer(name) == name \in PlayerIds

Has(content, t) == \E i \in 1..Len(content) : content[i] = t

HasAny(content, S) == \E i \in 1..Len(content) : content[i] \in S

\* re.findall(r"Player\d+", content)
FindPlayers(content) == SelectSeq(content, IsPlayerTok)

\* phrases whose lower-case text contains the English role word
RolePhrases(r) ==
    CASE r = "werewolf" -> {"werewolf"}
      [] r = "villager" -> {"villager", "i am villager"}
      [] r = "seer"     -> {"seer", "i am seer"}
      [] r = "witch"    -> {"witch", "i am witch"}
      [] r = "hunter"   -> {"hunter", "i am hunter"}

\* phrases containing the Chinese role word
CnRolePhrases(r) ==
    CASE r = "werewolf" -> {"cn:langren", "cn:jin langren kejian",
                            "cn:langren qing zhengyan", "cn:shi langren"}
      [] r = "villager" -> {"cn:cunmin", "cn:wo shi cunmin", "cn:shi cunmin"}
      [] r = "seer"     -> {"cn:yuyanjia", "cn:wo shi yuyanjia",
                            "cn:jin yuyanjia kejian"}
      [] r = "witch"    -> {"cn:nvwu", "cn:wo shi nvwu"}
      [] r = "hunter"   -> {"cn:lieren", "cn:wo shi lieren"}

\* the order of the list ["werewolf", "villager", "seer", "witch", "hunter"]
\* and of the keys of role_map_cn
RoleOrder == <<"werewolf", "villager", "seer", "witch", "hunter">>

\* "your role is" / 你的身份是 / 你的角色是
OwnRoleMarkers == {"your role is", "cn:ni de shenfen shi", "cn:ni de juese shi"}

\* "WEREWOLVES ONLY" / 仅狼人可见 / 狼人请睁眼
WolfChannelMarkers == {"WEREWOLVES ONLY", "cn:jin langren kejian",
                       "cn:langren qing zhengyan"}

\* "You've checked" / 查验 / 仅预言家可见
SeerGateMarkers == {"You've checked", "cn:chayan", "cn:chayan le",
                    "cn:jin yuyanjia kejian"}

\* "eliminated" / "died" / 淘汰 / 出局 / 死亡
DeathMarkers == {"eliminated", "died", "cn:taotai", "cn:chuju", "cn:siwang"}

\* ("players are" and "new game") / 游戏开始 / 新的一局 / 参与玩家
RosterMarkers == {"new game players are", "cn:youxi kaishi",
                  "cn:xin de yi ju", "cn:canyu wanjia"}

\* "Night has fallen" / 天黑了 / 黑夜 / 闭眼
NightMarkers == {"Night has fallen", "cn:tian hei le", "cn:heiye", "cn:biyan"}

\* "day is coming" / 天亮了 / 白天 / 睁眼 (狼人请睁眼 contains 睁眼)
DayMarkers == {"day is coming", "cn:tian liang le", "cn:baitian",
               "cn:zhengyan", "cn:langren qing zhengyan"}

\* "vote" / 投票 / 投给: the gate of vote tracking
VoteGateMarkers == {"vote", "cn:toupiao", "cn:tougei"}

\* vote|投票|投给|选择: the alternatives of the vote pattern
VotePatternMarkers == VoteGateMarkers \cup {"cn:xuanze"}

\* wolf|werewolf|查杀|是狼|狼人, case-insensitive
WolfCheckMarkers == {"wolf", "werewolf", "cn:chasha", "cn:shi langren",
                     "cn:langren", "cn:jin langren kejian",
                     "cn:langren qing zhengyan"}

\* suspicious|werewolf|wolf|狼|可疑|怀疑, case-insensitive
AccuseMarkers == {"suspicious", "wolf", "werewolf",
                  "cn:shi langren", "cn:langren", "cn:jin langren kejian",
                  "cn:langren qing zhengyan", "cn:keyi", "cn:huaiyi"}

\* the roles of the claim loops, in loop order
ClaimOrder == <<"seer", "witch", "hunter", "villager">>

\* "i am <role>" / "i'm <role>"
ClaimPhrase(r) ==
    CASE r = "seer"     -> "i am seer"
      [] r = "witch"    -> "i am witch"
      [] r = "hunter"   -> "i am hunter"
      [] r = "villager" -> "i am villager"

\* 我是<role> / 我就是<role>
CnClaimPhrase(r) ==
    CASE r = "seer"     -> "cn:wo shi yuyanjia"
      [] r = "witch"    -> "cn:wo shi nvwu"
      [] r = "hunter"   -> "cn:wo shi lieren"
      [] r = "villager" -> "cn:wo shi cunmin"

\* the first \w+ of a phrase
FirstWord(t) ==
    CASE t \in {"i am seer", "i am witch", "i am hunter", "i am villager"} -> "i"
      [] t = "your role is" -> "your"
      [] t = "You've checked" -> "You"
      [] t = "result is" -> "result"
      [] t = "new game players are" -> "new"
      [] t = "Night has fallen" -> "Night"
      [] t = "day is coming" -> "day"
      [] t = "WEREWOLVES ONLY" -> "WEREWOLVES"
      [] t = "cn:jieguo shi:" -> "cn:jieguo shi"
      [] OTHER -> t

\* str.lower()
Lower(w) ==
    CASE w = "Player1" -> "player1"
      [] w = "Player2" -> "player2"
      [] w = "Player3" -> "player3"
      [] w = "Player4" -> "player4"
      [] w = "Player5" -> "player5"
      [] w = "Player6" -> "player6"
      [] w = "Player7" -> "player7"
      [] w = "Player8" -> "player8"
      [] w = "Player9" -> "player9"
      [] w = "You" -> "you"
      [] w = "Night" -> "night"
      [] w = "WEREWOLVES" -> "werewolves"
      [] OTHER -> w

\* the smallest / largest element of a non-empty set of numbers
Min(S) == CHOOSE x \in S : \A y \in S : x <= y
Max(S) == CHOOSE x \in S : \A y \in S : x >= y

\* the items not in `seen`, each once, in order of first occurrence:
\* "for p in items: if p not in list: list.append(p)"
RECURSIVE FirstOccurrences(_, _)
FirstOccurrences(items, seen) ==
    IF items = <<>> THEN <<>>
    ELSE IF Head(items) \in seen
         THEN FirstOccurrences(Tail(items), seen)
         ELSE <<Head(items)>> \o FirstOccurrences(Tail(items), seen \cup {Head(items)})

-----------------------------------------------------------------------------
(* The belief state as one record *)

Belief ==
    [role |-> role, teammates |-> teammates, known_roles |-> known_roles,
     suspicions |-> suspicions, dead_players |-> dead_players,
     pending_dead_players |-> pending_dead_players,
     alive_players |-> alive_players, voting_history |-> voting_history,
     speech_patterns |-> speech_patterns, round_num |-> round_num,
     phase |-> phase, claimed_roles |-> claimed_roles,
     my_position |-> my_position, seer_claims |-> seer_claims,
     wolf_checks |-> wolf_checks, speech_order |-> speech_order]

\* PlayerAgent.__init__
InitialBelief ==
    [role |-> NoRole, teammates |-> <<>>, known_roles |-> EmptyDict,
     suspicions |-> EmptyDict, dead_players |-> <<>>,
     pending_dead_players |-> <<>>, alive_players |-> <<>>,
     voting_history |-> EmptyDict, speech_patterns |-> EmptyDict,
     round_num |-> 0, phase |-> "night", claimed_roles |-> EmptyDict,
     my_position |-> 0, seer_claims |-> <<>>, wolf_checks |-> EmptyDict,
     speech_order |-> 0]

-----------------------------------------------------------------------------
(* _extract_game_info, block by block *)

\* the first role of RoleOrder one of whose phrases is in the text
FirstRoleIn(content, Phrases(_)) ==
    LET hits == {i \in 1..Len(RoleOrder) : HasAny(content, Phrases(RoleOrder[i]))}
    IN  IF hits = {} THEN NoRole ELSE RoleOrder[Min(hits)]

\* "Extract own role": the English loop, then the Chinese loop, which
\* overwrites what the English one set
extract_own_role(b, content) ==
    IF HasAny(content, OwnRoleMarkers) /\ Has(content, Me)
    THEN LET en == FirstRoleIn(content, RolePhrases)
             cn == FirstRoleIn(content, CnRolePhrases)
             r  == IF cn # NoRole THEN cn ELSE en
         IN  IF r = NoRole THEN b
             ELSE [b EXCEPT !.role = r, !.known_roles = Put(@, Me, r)]
    ELSE b

\* "Track werewolf teammates"
track_teammates(b, content) ==
    IF b.role = "werewolf" /\ HasAny(content, WolfChannelMarkers)
    THEN LET new == FirstOccurrences(FindPlayers(content),
                                     SeqSet(b.teammates) \cup {Me})
         IN  [b EXCEPT !.teammates = @ \o new,
                       !.known_roles =
                           [x \in (DOMAIN @) \cup SeqSet(new) |->
                               IF x \in SeqSet(new) THEN "werewolf" ELSE @[x]]]
    ELSE b

\* re.search(r"checked (\w+).*result is[:\s]*(\w+)", content, re.I):
\* <<subject, outcome>> or <<>>; .* is greedy, so the last "result is" counts
MatchCheckedResult(content) ==
    LET starts == {i \in 1..(Len(content) - 1) : content[i] = "You've checked"}
    IN  IF starts = {} THEN <<>>
        ELSE LET i    == Min(starts)
                 ends == {j \in (i + 2)..(Len(content) - 1) : content[j] = "result is"}
             IN  IF ends = {} THEN <<>>
                 ELSE <<FirstWord(content[i + 1]), FirstWord(content[Max(ends) + 1])>>

\* phrases whose first word contains the character 狼
CnWolfCharPhrases == {"cn:langren", "cn:jin langren kejian",
                      "cn:langren qing zhengyan", "cn:shi langren"}

\* re.search(r"查验了?(Player\d+).*结果是[：:]\s*(\w+)", content)
MatchCnCheckedResult(content) ==
    LET starts == {i \in 1..(Len(content) - 1) :
                      /\ content[i] \in {"cn:chayan", "cn:chayan le"}
                      /\ IsPlayerTok(content[i + 1])
                      /\ \E j \in (i + 2)..(Len(content) - 1) : content[j] = "cn:jieguo shi:"}
    IN  IF starts = {} THEN <<>>
        ELSE LET i    == Min(starts)
                 ends == {j \in (i + 2)..(Len(content) - 1) : content[j] = "cn:jieguo shi:"}
             IN  <<content[i + 1], FirstWord(content[Max(ends) + 1])>>

\* phrases containing 是 or 为 followed at once by 狼人, 好人, 平民 or 村民
CnIsRolePhrases == {"cn:shi langren", "cn:shi haoren", "cn:shi pingmin",
                    "cn:shi cunmin", "cn:wo shi cunmin"}

\* re.search(r"(Player\d+).*(?:是|为)(狼人|好人|平民|村民)", content)
MatchCnIsRole(content) ==
    LET ps == {i \in 1..Len(content) : IsPlayerTok(content[i])}
    IN  IF ps = {} THEN <<>>
        ELSE LET i    == Min(ps)
                 ends == {j \in (i + 1)..Len(content) : content[j] \in CnIsRolePhrases}
             IN  IF ends = {} THEN <<>>
                 ELSE <<content[i], content[Max(ends)]>>

\* "Track seer results"
track_seer_results(b, content) ==
    IF b.role = "seer" /\ HasAny(content, SeerGateMarkers)
    THEN LET m1 == MatchCheckedResult(content)
             k1 == IF m1 = <<>> THEN b.known_roles
                   ELSE Put(b.known_roles, m1[1], Lower(m1[2]))
             m2 == MatchCnCheckedResult(content)
             k2 == IF m2 = <<>> THEN k1
                   ELSE Put(k1, m2[1], IF m2[2] \in CnWolfCharPhrases
                                       THEN "werewolf" ELSE "villager")
             m3 == MatchCnIsRole(content)
             k3 == IF m3 = <<>> THEN k2
                   ELSE Put(k2, m3[1], IF m3[2] = "cn:shi langren"
                                       THEN "werewolf" ELSE "villager")
         IN  [b EXCEPT !.known_roles = k3]
    ELSE b

\* death tracking that looks at dead_players only before it stages a player
track_deaths_unchecked(b, content) ==
    IF HasAny(content, DeathMarkers)
    THEN LET named == FindPlayers(content)
             Fresh(p) == ~InSeq(b.dead_players, p)
         IN  [b EXCEPT !.pending_dead_players = @ \o SelectSeq(named, Fresh)]
    ELSE b

\* death tracking that commits the deaths at once, as the earlier revision of
\* the agent did
track_deaths_at_once(b, content) ==
    IF HasAny(content, DeathMarkers)
    THEN LET new == FirstOccurrences(FindPlayers(content), SeqSet(b.dead_players))
         IN  [b EXCEPT !.dead_players = @ \o new,
                       !.alive_players = Without(@, SeqSet(FindPlayers(content)))]
    ELSE b

\* "Track deaths": the named players are staged, each once
track_deaths(b, content) ==
    IF HasAny(content, DeathMarkers)
    THEN [b EXCEPT !.pending_dead_players =
                       @ \o FirstOccurrences(FindPlayers(content),
                                             SeqSet(b.dead_players) \cup SeqSet(@))]
    ELSE b

\* set(self.known_roles.keys()) | set(self.teammates) | {self.name}
all_players(b) == (DOMAIN b.known_roles) \cup SeqSet(b.teammates) \cup {Me}

\* the lists list(S) can be: the iteration order of a set of strings is not
\* fixed by the language (string hashing differs from run to run)
ListsOf(S) ==
    {s \in [1..Cardinality(S) -> S] : \A i, j \in 1..Cardinality(S) : s[i] = s[j] => i = j}

\* what list(all_players) can yield in the roster block; <<>> when the
\* fallback of that block is not taken
FallbackLists(b, content) ==
    IF HasAny(content, RosterMarkers) /\ FindPlayers(content) = <<>>
    THEN ListsOf(all_players(b))
    ELSE {<<>>}

\* "Track alive players from game start"
track_roster(b, content, fallback) ==
    IF HasAny(content, RosterMarkers)
    THEN LET found_players == FindPlayers(content)
         IN  IF found_players # <<>>
             THEN [b EXCEPT !.alive_players = found_players,
                            !.my_position = IF InSeq(found_players, Me)
                                            THEN IndexOf(found_players, Me)
                                            ELSE @]
             ELSE [b EXCEPT !.alive_players = fallback]
    ELSE b

\* "Process pending deaths at start of day": the loop over pending_dead_players
RECURSIVE commit_pending(_, _, _)
commit_pending(pending, dead, alive) ==
    IF pending = <<>> THEN [dead |-> dead, alive |-> alive]
    ELSE LET p == Head(pending)
         IN  commit_pending(Tail(pending),
                            IF InSeq(dead, p) THEN dead ELSE Append(dead, p),
                            RemoveFirst(alive, p))

\* phase detection whose night branch leaves speech_order alone
detect_phase_keeps_speech_order(b, content) ==
    IF HasAny(content, NightMarkers)
    THEN [b EXCEPT !.phase = "night", !.round_num = @ + 1]
    ELSE IF HasAny(content, DayMarkers)
    THEN LET c == commit_pending(b.pending_dead_players, b.dead_players,
                                 b.alive_players)
         IN  [b EXCEPT !.phase = "day", !.speech_order = 0,
                       !.dead_players = c.dead, !.alive_players = c.alive,
                       !.pending_dead_players = <<>>]
    ELSE b

\* phase detection that takes a text without a marker for a day text
detect_phase_else_day(b, content) ==
    IF HasAny(content, NightMarkers)
    THEN [b EXCEPT !.phase = "night", !.round_num = @ + 1, !.speech_order = 0]
    ELSE LET c == commit_pending(b.pending_dead_players, b.dead_players,
                                 b.alive_players)
         IN  [b EXCEPT !.phase = "day", !.speech_order = 0,
                       !.dead_players = c.dead, !.alive_players = c.alive,
                       !.pending_dead_players = <<>>]

\* phase detection whose day branch commits the staged deaths but keeps them
\* staged
detect_phase_keeps_pending(b, content) ==
    IF HasAny(content, NightMarkers)
    THEN [b EXCEPT !.phase = "night", !.round_num = @ + 1, !.speech_order = 0]
    ELSE IF HasAny(content, DayMarkers)
    THEN LET c == commit_pending(b.pending_dead_players, b.dead_players,
                                 b.alive_players)
         IN  [b EXCEPT !.phase = "day", !.speech_order = 0,
                       !.dead_players = c.dead, !.alive_players = c.alive]
    ELSE b

\* "Phase detection"
detect_phase(b, content) ==
    IF HasAny(content, NightMarkers)
    THEN [b EXCEPT !.phase = "night", !.round_num = @ + 1, !.speech_order = 0]
    ELSE IF HasAny(content, DayMarkers)
    THEN LET c == commit_pending(b.pending_dead_players, b.dead_players,
                                 b.alive_players)
         IN  [b EXCEPT !.phase = "day", !.speech_order = 0,
                       !.dead_players = c.dead, !.alive_players = c.alive,
                       !.pending_dead_players = <<>>]
    ELSE b

\* "Track speech order"
track_speech_order(b, speaker) ==
    IF b.phase = "day" /\ StartsWithPlayer(speaker) /\ speaker # Me
    THEN [b EXCEPT !.speech_order = @ + 1]
    ELSE b

-----------------------------------------------------------------------------
(* Credibility Evaluator *)

\* a clamp that was left out
ClampMissing(score) == score

\* max(0.0, min(1.0, score))
Clamp(score) == IF score < 0 THEN 0 ELSE IF score > 100 THEN 100 ELSE score

\* "1.": a counter-claim lowers the base score
counter_claim_term(b) == IF Len(b.seer_claims) >= 2 THEN -10 ELSE 0

\* a check of the wolf-check that looks at the death only
wolf_check_term_death_only(b, seer) ==
    IF seer \in DOMAIN b.wolf_checks
    THEN IF InSeq(b.dead_players, b.wolf_checks[seer]) THEN -10 ELSE 0
    ELSE 0

\* "2.": the claimant's wolf-check, once the checked player is dead
wolf_check_term(b, seer) ==
    IF seer \in DOMAIN b.wolf_checks
    THEN LET checked_player == b.wolf_checks[seer]
         IN  IF InSeq(b.dead_players, checked_player)
             THEN IF /\ checked_player \in DOMAIN b.known_roles
                     /\ b.known_roles[checked_player] = "werewolf"
                  THEN 30
                  ELSE -10
             ELSE 0
    ELSE 0

\* a seat term that gives a front claimant 0.2
position_term_front_fifth(b, seer) ==
    IF InSeq(b.alive_players, seer)
    THEN LET pos == IndexOf(b.alive_players, seer)
         IN  IF pos <= 3 THEN 20 ELSE IF pos >= 7 THEN -5 ELSE 0
    ELSE 0

\* "3.": the seat of the claimant
position_term(b, seer) ==
    IF InSeq(b.alive_players, seer)
    THEN LET pos == IndexOf(b.alive_players, seer)
         IN  IF pos <= 3 THEN 10 ELSE IF pos >= 7 THEN -5 ELSE 0
    ELSE 0

\* a rival count that forgets the wolf-checks of the other claimants
rival_checks_none(b, seer) == {}

\* "4.": the other claimants whose wolf-check names this one
rival_checks(b, seer) ==
    {other_seer \in DOMAIN b.wolf_checks :
        other_seer # seer /\ b.wolf_checks[other_seer] = seer}

\* _evaluate_seer_credibility on the belief state b, in hundredths
evaluate_seer_credibility(b, seer) ==
    IF ~InSeq(b.seer_claims, seer) THEN 0
    ELSE Clamp(50 + counter_claim_term(b) + wolf_check_term(b, seer)
                  + position_term(b, seer)
                  - 20 * Cardinality(rival_checks(b, seer)))

-----------------------------------------------------------------------------
(* Suspicion Engine *)

\* suspicions[k] = suspicions.get(k, 0) + delta, for every k of S
AddTo(susp, S, delta) ==
    [x \in (DOMAIN susp) \cup S |-> Get(susp, x, 0) + (IF x \in S THEN delta ELSE 0)]

\* the players a voter accused: the "accused:<id>" entries of speech_patterns
accused_by(b, voter) ==
    {b.speech_patterns[voter][i].who : i \in 1..Len(b.speech_patterns[voter])}

\* rule 1 of _update_suspicion_from_vote: accused one player, voted another
rule_inconsistent_vote(b, voter, target) ==
    IF /\ voter \in DOMAIN b.speech_patterns
       /\ accused_by(b, voter) # {}
       /\ target \notin accused_by(b, voter)
    THEN [b EXCEPT !.suspicions = AddTo(@, {voter}, 25)]
    ELSE b

\* rule 2 without the test of the agent's own role
rule_voted_innocent_any_role(b, voter, target) ==
    IF /\ target \in DOMAIN b.known_roles
       /\ b.known_roles[target] # "werewolf"
    THEN [b EXCEPT !.suspicions = AddTo(@, {voter}, 35)]
    ELSE b

\* rule 2: voted a player the seer knows not to be a werewolf
rule_voted_innocent(b, voter, target) ==
    IF /\ target \in DOMAIN b.known_roles
       /\ b.known_roles[target] # "werewolf"
       /\ b.role = "seer"
    THEN [b EXCEPT !.suspicions = AddTo(@, {voter}, 35)]
    ELSE b

\* rule 3: voted a credible seer
rule_voted_seer(b, voter, target) ==
    IF InSeq(b.seer_claims, target) /\ evaluate_seer_credibility(b, target) > 60
    THEN [b EXCEPT !.suspicions = AddTo(@, {voter}, 30)]
    ELSE b

\* coordination detection that sets the score to 0.1 where the source adds 0.1
detect_vote_coordination_overwrite(b, voter, target) ==
    LET voters_for_target ==
            {v \in DOMAIN b.voting_history :
                /\ b.voting_history[v] # <<>>
                /\ ~InSeq(b.dead_players, v)
                /\ b.voting_history[v][Len(b.voting_history[v])] = target}
    IN  IF /\ Cardinality(voters_for_target) >= 2
           /\ Get(b.suspicions, target, 0) < 30
        THEN [b EXCEPT !.suspicions =
                           [x \in (DOMAIN @) \cup (voters_for_target \ {Me}) |->
                               IF x \in voters_for_target \ {Me} THEN 10 ELSE @[x]]]
        ELSE b

\* coordination detection that scores the agent itself as well
detect_vote_coordination_scores_self(b, voter, target) ==
    LET voters_for_target ==
            {v \in DOMAIN b.voting_history :
                /\ b.voting_history[v] # <<>>
                /\ ~InSeq(b.dead_players, v)
                /\ b.voting_history[v][Len(b.voting_history[v])] = target}
        s1 == IF /\ Cardinality(voters_for_target) >= 2
                 /\ Get(b.suspicions, target, 0) < 30
              THEN AddTo(b.suspicions, voters_for_target, 10)
              ELSE b.suspicions
        s2 == IF b.speech_order > 3 /\ Cardinality(voters_for_target) >= 2
              THEN AddTo(s1, voters_for_target \ {Me, voter}, 5)
              ELSE s1
    IN  [b EXCEPT !.suspicions = s2]

\* _detect_vote_coordination
detect_vote_coordination(b, voter, target) ==
    LET current_round_votes ==
            [v \in {v \in DOMAIN b.voting_history :
                       b.voting_history[v] # <<>> /\ ~InSeq(b.dead_players, v)}
                |-> b.voting_history[v][Len(b.voting_history[v])]]
        voters_for_target ==
            {v \in DOMAIN current_round_votes : current_round_votes[v] = target}
        s1 == IF /\ Cardinality(voters_for_target) >= 2
                 /\ Get(b.suspicions, target, 0) < 30
              THEN AddTo(b.suspicions, voters_for_target \ {Me}, 10)
              ELSE b.suspicions
        s2 == IF b.speech_order > 3 /\ Cardinality(voters_for_target) >= 2
              THEN AddTo(s1, voters_for_target \ {Me, voter}, 5)
              ELSE s1
    IN  [b EXCEPT !.suspicions = s2]

\* rule 5 that looks at the votes of the voter only
RECURSIVE never_vote_each_other_one_sided(_, _, _, _)
never_vote_each_other_one_sided(susp, rest, voter, history) ==
    IF rest = <<>> THEN susp
    ELSE LET p == Head(rest)
             voter_never_votes_p == ~InSeq(history[voter], p)
         IN  never_vote_each_other_one_sided(
                 IF p # voter /\ voter_never_votes_p
                 THEN AddTo(AddTo(susp, {voter}, 15), {p}, 15)
                 ELSE susp,
                 Tail(rest), voter, history)

\* rule 5, the loop "for p in self.alive_players" over the rest of the list
RECURSIVE never_vote_each_other(_, _, _, _)
never_vote_each_other(susp, rest, voter, history) ==
    IF rest = <<>> THEN susp
    ELSE LET p == Head(rest)
             voter_never_votes_p == ~InSeq(history[voter], p)
             p_never_votes_voter == ~InSeq(Get(history, p, <<>>), voter)
         IN  never_vote_each_other(
                 IF p # voter /\ voter_never_votes_p /\ p_never_votes_voter
                 THEN AddTo(AddTo(susp, {voter}, 15), {p}, 15)
                 ELSE susp,
                 Tail(rest), voter, history)

\* rule 5 that waits for a third vote of the voter
rule_never_vote_each_other_late(b, voter) ==
    IF voter \in DOMAIN b.voting_history /\ Len(b.voting_history[voter]) >= 3
    THEN [b EXCEPT !.suspicions =
                       never_vote_each_other(@, b.alive_players, voter,
                                             b.voting_history)]
    ELSE b

\* rule 5: players who never vote each other
rule_never_vote_each_other(b, voter) ==
    IF voter \in DOMAIN b.voting_history /\ Len(b.voting_history[voter]) >= 2
    THEN [b EXCEPT !.suspicions =
                       never_vote_each_other(@, b.alive_players, voter,
                                             b.voting_history)]
    ELSE b

\* _update_suspicion_from_vote
update_suspicion_from_vote(b, voter, target) ==
    LET b1 == rule_inconsistent_vote(b, voter, target)
        b2 == rule_voted_innocent(b1, voter, target)
        b3 == rule_voted_seer(b2, voter, target)
        b4 == detect_vote_coordination(b3, voter, target)
    IN  rule_never_vote_each_other(b4, voter)

-----------------------------------------------------------------------------
(* _extract_game_info, continued *)

\* re.findall(r"(?:vote|投票|投给|选择).*?(Player\d+)", content, re.I)[0], or,
\* without a match, re.findall(r"(Player\d+)", content)[0]; <<>> if neither
find_voted(content) ==
    LET marks == {i \in 1..Len(content) : content[i] \in VotePatternMarkers}
        after == IF marks = {} THEN {}
                 ELSE {j \in (Min(marks) + 1)..Len(content) : IsPlayerTok(content[j])}
        any   == {j \in 1..Len(content) : IsPlayerTok(content[j])}
    IN  IF after # {} THEN <<content[Min(after)]>>
        ELSE IF any # {} THEN <<content[Min(any)]>>
        ELSE <<>>

\* "Track voting"
track_voting(b, speaker, content) ==
    IF HasAny(content, VoteGateMarkers) /\ StartsWithPlayer(speaker)
    THEN LET voted == find_voted(content)
         IN  IF voted # <<>>
             THEN update_suspicion_from_vote(
                      [b EXCEPT !.voting_history =
                                    Put(@, speaker, Append(Get(@, speaker, <<>>), voted[1]))],
                      speaker, voted[1])
             ELSE b
    ELSE b

\* the role the claim loops leave in claimed_roles[speaker]: the last role of
\* ClaimOrder claimed in Chinese, else the last claimed in English
claimed_role_in(content) ==
    LET en == {i \in 1..Len(ClaimOrder) : Has(content, ClaimPhrase(ClaimOrder[i]))}
        cn == {i \in 1..Len(ClaimOrder) : Has(content, CnClaimPhrase(ClaimOrder[i]))}
    IN  IF cn # {} THEN ClaimOrder[Max(cn)]
        ELSE IF en # {} THEN ClaimOrder[Max(en)]
        ELSE NoRole

\* re.search(r"(Player\d+).*(?:wolf|werewolf|查杀|是狼|狼人)", content, re.I):
\* <<the first player named before a marker>> or <<>>
find_wolf_check(content) ==
    LET ps == {i \in 1..Len(content) : IsPlayerTok(content[i])}
    IN  IF ps = {} THEN <<>>
        ELSE IF \E j \in (Min(ps) + 1)..Len(content) : content[j] \in WolfCheckMarkers
             THEN <<content[Min(ps)]>>
             ELSE <<>>

\* claim tracking that lists a seer claimant only for an English claim
track_claims_english_only(b, speaker, content) ==
    IF StartsWithPlayer(speaker)
    THEN LET claimed == claimed_role_in(content)
             says_seer == Has(content, ClaimPhrase("seer"))
             b1 == IF claimed = NoRole THEN b
                   ELSE [b EXCEPT !.claimed_roles = Put(@, speaker, claimed)]
             b2 == IF says_seer /\ ~InSeq(b1.seer_claims, speaker)
                   THEN [b1 EXCEPT !.seer_claims = Append(@, speaker)]
                   ELSE b1
             wolf_check == find_wolf_check(content)
         IN  IF wolf_check # <<>> /\ InSeq(b2.seer_claims, speaker)
             THEN [b2 EXCEPT !.wolf_checks = Put(@, speaker, wolf_check[1])]
             ELSE b2
    ELSE b

\* "Track role claims" and "Track wolf checks"
track_claims(b, speaker, content) ==
    IF StartsWithPlayer(speaker)
    THEN LET claimed == claimed_role_in(content)
             says_seer == \/ Has(content, ClaimPhrase("seer"))
                          \/ Has(content, CnClaimPhrase("seer"))
             b1 == IF claimed = NoRole THEN b
                   ELSE [b EXCEPT !.claimed_roles = Put(@, speaker, claimed)]
             b2 == IF says_seer /\ ~InSeq(b1.seer_claims, speaker)
                   THEN [b1 EXCEPT !.seer_claims = Append(@, speaker)]
                   ELSE b1
             wolf_check == find_wolf_check(content)
         IN  IF wolf_check # <<>> /\ InSeq(b2.seer_claims, speaker)
             THEN [b2 EXCEPT !.wolf_checks = Put(@, speaker, wolf_check[1])]
             ELSE b2
    ELSE b

\* re.findall(r"(Player\d+).*(?:suspicious|werewolf|wolf|狼|可疑|怀疑)", content,
\* re.I): on one line the greedy .* leaves one match at most
find_accused(content) ==
    LET ps == {i \in 1..Len(content) : IsPlayerTok(content[i])}
    IN  IF ps = {} THEN <<>>
        ELSE IF \E j \in (Min(ps) + 1)..Len(content) : content[j] \in AccuseMarkers
             THEN <<content[Min(ps)]>>
             ELSE <<>>

\* the entry f"accused:{a}"
Accused(a) == [tag |-> "accused", who |-> a]

\* "Track accusations"
track_accusations(b, speaker, content) ==
    IF StartsWithPlayer(speaker) /\ speaker # Me
    THEN LET accused == find_accused(content)
             old     == Get(b.speech_patterns, speaker, <<>>)
         IN  [b EXCEPT !.speech_patterns =
                           Put(@, speaker,
                               old \o [i \in 1..Len(accused) |-> Accused(accused[i])])]
    ELSE b

\* _extract_game_info with "Track accusations" moved before "Track voting"
extract_game_info_accusations_first(b, m, fallback) ==
    LET content == m.content
        speaker == m.name
        b1 == extract_own_role(b, content)
        b2 == track_teammates(b1, content)
        b3 == track_seer_results(b2, content)
        b4 == track_deaths(b3, content)
        b5 == track_roster(b4, content, fallback)
        b6 == detect_phase(b5, content)
        b7 == track_speech_order(b6, speaker)
        b8 == track_accusations(b7, speaker, content)
        b9 == track_voting(b8, speaker, content)
    IN  track_claims(b9, speaker, content)

\* _extract_game_info(msg); fallback is what list(all_players) yields if the
\* roster block needs it
extract_game_info(b, m, fallback) ==
    LET content == m.content
        speaker == m.name
        b1 == extract_own_role(b, content)
        b2 == track_teammates(b1, content)
        b3 == track_seer_results(b2, content)
        b4 == track_deaths(b3, content)
        b5 == track_roster(b4, content, fallback)
        b6 == detect_phase(b5, content)
        b7 == track_speech_order(b6, speaker)
        b8 == track_voting(b7, speaker, content)
        b9 == track_claims(b8, speaker, content)
    IN  track_accusations(b9, speaker, content)

\* the belief state on which the roster block of _extract_game_info runs
before_roster(b, m) ==
    track_deaths(track_seer_results(track_teammates(
        extract_own_role(b, m.content), m.content), m.content), m.content)

\* the message records a vote: the gate of "Track voting" and a player to
\* vote for
records_vote(m) ==
    /\ HasAny(m.content, VoteGateMarkers) /\ StartsWithPlayer(m.name)
    /\ find_voted(m.content) # <<>>

\* the belief state on which _update_suspicion_from_vote runs for a message
\* that records a vote: the blocks before "Track voting" have run and the vote
\* is appended to voting_history (such a message names a player, so the
\* roster block needs no fallback)
before_vote_update(b, m) ==
    LET b7 == track_speech_order(
                  detect_phase(
                      track_roster(before_roster(b, m), m.content, <<>>),
                      m.content),
                  m.name)
    IN  [b7 EXCEPT !.voting_history =
                       Put(@, m.name,
                           Append(Get(@, m.name, <<>>), find_voted(m.content)[1]))]

-----------------------------------------------------------------------------
(* Bounds of the model *)

\* night markers observed at most
MaxRound == 2

\* votes recorded at most, over all voters, in the game of Spec
MaxLifeVotes == 1

\* votes recorded at most, over all voters, in the game of SpecVote
MaxVotes == 4

\* accusations recorded at most, over all speakers
MaxAccusations == 1

\* speeches counted in one phase at most
MaxSpeechOrder == 4

\* seer claimants at most, in SpecCred
MaxClaimants == 5

\* digits of a player id at most (the pattern Player\d+ sets no limit)
MaxIdDigits == 1990

\* accusation words counted in a profile at most
MaxAccusationWords == 6

\* role claims counted in a profile at most
MaxClaimWords == 3

\* accusations recorded at most in the game of SpecSameMessage
MaxAccusationsKept == 2

\* the sum of the lengths of the lists of a dictionary
RECURSIVE TotalLen(_)
TotalLen(d) ==
    IF DOMAIN d = {} THEN 0
    ELSE LET k == CHOOSE k \in DOMAIN d : TRUE
         IN  Len(d[k]) + TotalLen([x \in (DOMAIN d) \ {k} |-> d[x]])

WithinBoundsOf(b, max_votes, max_accusations) ==
    /\ b.round_num <= MaxRound
    /\ b.speech_order <= MaxSpeechOrder
    /\ TotalLen(b.voting_history) <= max_votes
    /\ TotalLen(b.speech_patterns) <= max_accusations

WithinBounds(b, max_votes) == WithinBoundsOf(b, max_votes, MaxAccusations)

-----------------------------------------------------------------------------
(* Opponent profiles.  A profile is kept as the three entries that         *)
(* predict_opponent_role reads: speech_style, accusation_frequency and     *)
(* claim_frequency.                                                        *)

\* the profiles are not followed
NotFollowed == [followed |-> FALSE, profiles |-> EmptyDict]

\* self.opponent_profiles = {}
NoProfiles == [followed |-> TRUE, profiles |-> EmptyDict]

\* the profile a speaker is given at its first speech
NewProfile ==
    [speech_style |-> "neutral", accusation_frequency |-> 0, claim_frequency |-> 0]

\* (i am |我是)(seer|预言家|witch|女巫|hunter|猎人|villager|村民|平民)
ProfileClaimPhrases ==
    {ClaimPhrase(ClaimOrder[i]) : i \in 1..Len(ClaimOrder)}
      \cup {CnClaimPhrase(ClaimOrder[i]) : i \in 1..Len(ClaimOrder)}

aggressive_words ==
    {"must", "definitely", "obviously", "clearly", "liar", "lying", "fake",
     "cn:wuyi", "cn:kending", "cn:juedui", "cn:pianzi", "cn:sahuang"}

cautious_words ==
    {"maybe", "perhaps", "could be", "might", "not sure", "think",
     "cn:ganjue", "cn:keneng", "cn:yexu", "cn:bu queding"}

\* a filling that takes the text of a speech over 500 characters
LongFilling == "(more than 500 characters)"

\* the number of matches of a pattern whose alternatives are the phrases of S
Matches(content, S) == Cardinality({i \in 1..Len(content) : content[i] \in S})

\* "Determine speech style"; a speech of the model without the long filling
\* has fewer than 100 characters
speech_style_of(content) ==
    LET aggressive_count == Cardinality(SeqSet(content) \cap aggressive_words)
        cautious_count == Cardinality(SeqSet(content) \cap cautious_words)
    IN  IF aggressive_count > cautious_count + 2 THEN "aggressive"
        ELSE IF cautious_count > aggressive_count + 2 THEN "cautious"
        ELSE IF Has(content, LongFilling) THEN "verbose"
        ELSE "concise"

\* _update_opponent_profile(speaker, content)
update_opponent_profile(profiles, speaker, content) ==
    IF ~StartsWithPlayer(speaker) \/ speaker = Me THEN profiles
    ELSE LET profile == Get(profiles, speaker, NewProfile)
         IN  Put(profiles, speaker,
                 [speech_style |-> speech_style_of(content),
                  accusation_frequency |->
                      profile.accusation_frequency + Matches(content, AccuseMarkers),
                  claim_frequency |->
                      profile.claim_frequency + Matches(content, ProfileClaimPhrases)])

\* the step of _extract_game_info on the profiles
follow_profiles(op, m) ==
    IF op.followed
    THEN [op EXCEPT !.profiles = update_opponent_profile(@, m.name, m.content)]
    ELSE op

ProfilesWithinBounds(op) ==
    \A p \in DOMAIN op.profiles :
        /\ op.profiles[p].accusation_frequency <= MaxAccusationWords
        /\ op.profiles[p].claim_frequency <= MaxClaimWords

\* scores[k] += delta, where k is an entry of scores
Bump(r, k, delta) ==
    IF r.raised # <<>> THEN r
    ELSE IF k \in DOMAIN r.scores
    THEN [r EXCEPT !.scores[k] = @ + delta]
    ELSE [r EXCEPT !.raised = <<"KeyError", k>>]

\* scores[k] = scores.pop("special", 0.34) + 0.1
Rename(r, k) ==
    [r EXCEPT !.scores =
        [x \in ((DOMAIN @) \ {"special"}) \cup {k} |->
            IF x = k THEN Get(@, "special", 34) + 10 ELSE @[x]]]

\* predict_opponent_role(speaker): the scores in hundredths before
\* "Normalize scores", and the KeyError if one is raised on the way
predict_opponent_role(profiles, speaker) ==
    LET start == [scores |-> [k \in {"werewolf", "villager", "special"} |->
                                 IF k = "special" THEN 34 ELSE 33],
                  raised |-> <<>>]
    IN  IF speaker \notin DOMAIN profiles THEN start
        ELSE
        LET profile == profiles[speaker]
            r1 == IF profile.accusation_frequency > 5
                  THEN Bump(Bump(start, "werewolf", 20), "villager", -10)
                  ELSE IF profile.accusation_frequency < 1
                  THEN Bump(Bump(start, "werewolf", 15), "villager", -5)
                  ELSE start
            r2 == IF profile.speech_style = "aggressive"
                  THEN Rename(Bump(r1, "werewolf", 10), "hunter")
                  ELSE IF profile.speech_style = "cautious"
                  THEN Bump(Rename(r1, "seer"), "villager", 5)
                  ELSE r1
        IN  IF profile.claim_frequency > 2
            THEN Bump(Bump(r2, "special", 25), "villager", -15)
            ELSE r2

\* "Opponent modeling analysis" of _build_context: the errors raised by the
\* calls of predict_opponent_role it makes
opponent_analysis_raised(b, profiles) ==
    {predict_opponent_role(profiles, player).raised :
        player \in {q \in DOMAIN profiles : InSeq(b.alive_players, q) /\ q # Me}}
      \ {<<>>}

-----------------------------------------------------------------------------
(* The agent as a state machine *)

\* the belief state is b
Is(b) ==
    /\ role = b.role
    /\ teammates = b.teammates
    /\ known_roles = b.known_roles
    /\ suspicions = b.suspicions
    /\ dead_players = b.dead_players
    /\ pending_dead_players = b.pending_dead_players
    /\ alive_players = b.alive_players
    /\ voting_history = b.voting_history
    /\ speech_patterns = b.speech_patterns
    /\ round_num = b.round_num
    /\ phase = b.phase
    /\ claimed_roles = b.claimed_roles
    /\ my_position = b.my_position
    /\ seer_claims = b.seer_claims
    /\ wolf_checks = b.wolf_checks
    /\ speech_order = b.speech_order

\* the belief state becomes b
Becomes(b) ==
    /\ role' = b.role
    /\ teammates' = b.teammates
    /\ known_roles' = b.known_roles
    /\ suspicions' = b.suspicions
    /\ dead_players' = b.dead_players
    /\ pending_dead_players' = b.pending_dead_players
    /\ alive_players' = b.alive_players
    /\ voting_history' = b.voting_history
    /\ speech_patterns' = b.speech_patterns
    /\ round_num' = b.round_num
    /\ phase' = b.phase
    /\ claimed_roles' = b.claimed_roles
    /\ my_position' = b.my_position
    /\ seer_claims' = b.seer_claims
    /\ wolf_checks' = b.wolf_checks
    /\ speech_order' = b.speech_order

\* PlayerAgent.__init__
Init ==
    /\ Is(InitialBelief) /\ msg = NoMsg /\ cred = EmptyDict
    /\ returned = NothingReturned /\ opponent_profiles = NotFollowed

\* observe(msg) for one message, while the game stays within the bounds
ObserveWithin(m, max_votes, max_accusations) ==
    \E fallback \in FallbackLists(before_roster(Belief, m), m.content) :
        LET b == extract_game_info(Belief, m, fallback)
        IN  /\ WithinBoundsOf(b, max_votes, max_accusations)
            /\ Becomes(b)
            /\ msg' = m
            /\ opponent_profiles' = follow_profiles(opponent_profiles, m)
            /\ ProfilesWithinBounds(opponent_profiles')
            /\ UNCHANGED <<cred, returned>>

Observe(m, max_votes) == ObserveWithin(m, max_votes, MaxAccusations)

Say(name, content) == [name |-> name, content |-> content]

\* the players of the small game
Trio == <<"Player1", "Player2", "Player3">>

-----------------------------------------------------------------------------
(* Spec: the life cycle of a game, three players *)

\* what the moderator says
ModeratorTexts ==
    {<<"new game players are">> \o Trio,
     <<"new game players are", "Player2", "Player3">>,
     <<"new game players are">>,
     <<"new game players are", "Player3", "eliminated">>,
     <<"Night has fallen">>,
     <<"day is coming">>,
     <<"Player2", "eliminated">>,
     <<"Player3", "eliminated">>,
     <<"Player2", "Player2", "eliminated">>,
     <<"Player3", "eliminated", "day is coming">>}

\* what a player says
PlayerTexts ==
    {<<"vote", "Player3">>}

ModeratorSpeaks ==
    \E c \in ModeratorTexts : Observe(Say(Moderator, c), MaxLifeVotes)

PlayerSpeaks ==
    \E c \in PlayerTexts : Observe(Say("Player2", c), MaxLifeVotes)

Next == ModeratorSpeaks \/ PlayerSpeaks

Spec == Init /\ [][Next]_vars

-----------------------------------------------------------------------------
(* SpecVote: a round of accusations and votes, three players *)

VoteModeratorTexts ==
    {<<"new game players are">> \o Trio,
     <<"your role is", "Player1", "seer", "day is coming">>}

VoteTexts == {<<"vote", "Player1">>, <<"vote", "Player3">>}

AccuseTexts == {<<"Player1", "suspicious">>}

VoteModeratorSpeaks ==
    \E c \in VoteModeratorTexts : Observe(Say(Moderator, c), MaxVotes)

PlayerVotes ==
    \E p \in {"Player2", "Player3"} : \E c \in VoteTexts :
        Observe(Say(p, c), MaxVotes)

PlayerAccuses ==
    \E c \in AccuseTexts : Observe(Say("Player2", c), MaxVotes)

NextVote == VoteModeratorSpeaks \/ PlayerVotes \/ PlayerAccuses

SpecVote == Init /\ [][NextVote]_vars

-----------------------------------------------------------------------------
(* SpecCred: _evaluate_seer_credibility over belief states of a nine-player *)
(* game.  Each initial state is the state after: a roster, the agent's     *)
(* role and what it learnt, the seer claims with their wolf-checks (made   *)
(* before the first day), a death announcement, the day marker and an      *)
(* empty message.                                                          *)

Nine == <<"Player1", "Player2", "Player3", "Player4", "Player5",
          "Player6", "Player7", "Player8", "Player9">>

Reverse(s) == [i \in 1..Len(s) |-> s[Len(s) + 1 - i]]

\* the members of S in seat order
InSeatOrder(S) == LET In(x) == x \in S IN SelectSeq(Nine, In)

\* the players who may have claimed seer
Claimable == {Nine[i] : i \in 1..MaxClaimants}

\* the players a wolf-check names
CredTargets == {"Player1", "Player2"}

\* what the agent is and knows
CredKnowledge ==
    {[role |-> NoRole, teammates |-> <<>>, known_roles |-> EmptyDict],
     [role |-> "werewolf", teammates |-> <<"Player2">>,
      known_roles |-> [x \in {"Player1", "Player2"} |-> "werewolf"]],
     [role |-> "seer", teammates |-> <<>>,
      known_roles |-> [x \in {"Player1", "Player2"} |->
                          IF x = Me THEN "seer" ELSE "werewolf"]]}

CredDead == {<<>>, <<"Player2">>, <<"Player1", "Player2">>}

CredRosters == {<<>>, Nine, Reverse(Nine)}

InitCred ==
    \E S \in SUBSET Claimable, k \in CredKnowledge, d \in CredDead,
       r \in CredRosters :
       \E T \in SUBSET S :
          \E wc \in [T -> CredTargets] :
             /\ Is([InitialBelief EXCEPT
                       !.role = k.role,
                       !.teammates = k.teammates,
                       !.known_roles = k.known_roles,
                       !.dead_players = d,
                       !.alive_players = Without(r, SeqSet(d)),
                       !.my_position = IF r = <<>> THEN 0 ELSE IndexOf(r, Me),
                       !.phase = IF d = <<>> THEN "night" ELSE "day",
                       !.seer_claims = InSeatOrder(S),
                       !.claimed_roles = [p \in S |-> "seer"],
                       !.wolf_checks = wc,
                       !.speech_patterns =
                           [p \in S \ {Me} |->
                               IF p \in T THEN <<Accused(wc[p])>> ELSE <<>>]])
             /\ msg = Say(Moderator, <<>>)
             /\ cred = EmptyDict
             /\ returned = NothingReturned
             /\ opponent_profiles = NotFollowed

\* _evaluate_seer_credibility(p) for every player p
EvaluateSeerCredibility ==
    /\ cred' = [p \in PlayerIds |-> evaluate_seer_credibility(Belief, p)]
    /\ UNCHANGED <<role, teammates, known_roles, suspicions, dead_players,
                   pending_dead_players, alive_players, voting_history,
                   speech_patterns, round_num, phase, claimed_roles,
                   my_position, seer_claims, wolf_checks, speech_order, msg,
                   returned, opponent_profiles>>

NextCred == EvaluateSeerCredibility

SpecCred == InitCred /\ [][NextCred]_vars

-----------------------------------------------------------------------------
(* Properties of the life cycle, checked under Spec *)

\* the message carries a death marker / a day marker / a roster marker
AnnouncesDeath(m) == HasAny(m.content, DeathMarkers)
AnnouncesDay(m) == HasAny(m.content, DayMarkers)
AnnouncesRoster(m) == HasAny(m.content, RosterMarkers)

\* the players a message names
Named(m) == SeqSet(FindPlayers(m.content))

\* C1: no player is in dead_players and in alive_players at the same time.
C1_DeadNotAlive ==
    SeqSet(dead_players) \cap SeqSet(alive_players) = {}

\* C2: no player occurs twice in dead_players, twice in
\* pending_dead_players, or in both lists.
C2_DeathsRecordedOnce ==
    /\ NoDuplicates(dead_players)
    /\ NoDuplicates(pending_dead_players)
    /\ SeqSet(dead_players) \cap SeqSet(pending_dead_players) = {}

\* a death announcement that named one player twice has been processed, and
\* the player is staged
C2_Witness ==
    /\ AnnouncesDeath(msg)
    /\ Len(FindPlayers(msg.content)) > Cardinality(Named(msg))
    /\ \E p \in Named(msg) : InSeq(pending_dead_players, p)

\* C3, as claimed: a death announcement without a day marker, observed at
\* night, leaves alive_players and dead_players unchanged.
C3_NightDeathKeepsLists ==
    [][(phase = "night" /\ AnnouncesDeath(msg') /\ ~AnnouncesDay(msg'))
          => (alive_players' = alive_players /\ dead_players' = dead_players)]_vars

\* C3, amended: a death announcement without a day marker and without a
\* roster marker, observed at night, leaves alive_players and dead_players
\* unchanged; the players it names are staged unless they are dead already.
C3_NightDeathStaged ==
    [][(/\ phase = "night"
        /\ AnnouncesDeath(msg')
        /\ ~AnnouncesDay(msg')
        /\ ~AnnouncesRoster(msg'))
          => (/\ alive_players' = alive_players
              /\ dead_players' = dead_players
              /\ \A p \in Named(msg') :
                    InSeq(pending_dead_players', p) \/ InSeq(dead_players, p))]_vars

\* a death has been announced at night and the player named is staged and
\* still listed as alive
C3_Witness ==
    /\ phase = "night"
    /\ AnnouncesDeath(msg) /\ ~AnnouncesDay(msg) /\ ~AnnouncesRoster(msg)
    /\ \E p \in Named(msg) :
          InSeq(pending_dead_players, p) /\ InSeq(alive_players, p)

\* the position the roster of a message gives the agent: 1 + its index, or 0
RosterPosition(m) ==
    IF InSeq(FindPlayers(m.content), Me) THEN IndexOf(FindPlayers(m.content), Me)
    ELSE 0

\* a roster announcement that lists players
ListsRoster(m) == AnnouncesRoster(m) /\ FindPlayers(m.content) # <<>>

\* C4: after a roster announcement (one that lists players) my_position is
\* 1 + the index of the agent in that roster, or 0 if the agent is not in it.
C4_PositionFromRoster ==
    ListsRoster(msg) => my_position = RosterPosition(msg)

\* C5: after a roster announcement (one that lists players) the game-scoped
\* fields hold nothing recorded earlier and alive_players is that roster.
C5_RosterResetsGame ==
    ListsRoster(msg) =>
        /\ teammates = <<>>
        /\ known_roles = EmptyDict
        /\ suspicions = EmptyDict
        /\ dead_players = <<>>
        /\ TotalLen(voting_history) = 0
        /\ TotalLen(speech_patterns) = 0
        /\ claimed_roles = EmptyDict
        /\ seer_claims = <<>>
        /\ wolf_checks = EmptyDict
        /\ alive_players = FindPlayers(msg.content)

-----------------------------------------------------------------------------
(* Properties of the Credibility Evaluator, checked under SpecCred *)

Claimants == SeqSet(seer_claims)

\* the score before clamping
RawScore(b, seer) ==
    50 + counter_claim_term(b) + wolf_check_term(b, seer) + position_term(b, seer)
       - 20 * Cardinality(rival_checks(b, seer))

\* C6: _evaluate_seer_credibility(p) is 0.0 for a player who has not claimed
\* seer and lies within [0, 1] for one who has; so do the values returned.
C6_CredibilityRange ==
    \A p \in PlayerIds :
        LET score == evaluate_seer_credibility(Belief, p)
        IN  /\ p \notin Claimants => score = 0
            /\ p \in Claimants => (0 <= score /\ score <= 100)
            /\ cred # EmptyDict => cred[p] = score

\* the evaluator has returned 0.0 for a claimant whose terms add up to less
\* than zero, and 0.0 for a player who has not claimed
C6_Witness ==
    /\ cred # EmptyDict
    /\ \E p \in Claimants : RawScore(Belief, p) < 0 /\ cred[p] = 0
    /\ \E q \in PlayerIds \ Claimants : cred[q] = 0

\* the wolf-check of claimant p names a player who is dead and known to be a
\* werewolf
Verified(b, p) ==
    /\ p \in DOMAIN b.wolf_checks
    /\ InSeq(b.dead_players, b.wolf_checks[p])
    /\ Get(b.known_roles, b.wolf_checks[p], NoRole) = "werewolf"

\* the same belief state, but player t is not dead
NotDead(b, t) == [b EXCEPT !.dead_players = Without(@, {t})]

\* the same belief state, but the role of player t is not known
NotKnown(b, t) == [b EXCEPT !.known_roles = [x \in (DOMAIN @) \ {t} |-> @[x]]]

\* C7, as claimed: a verified wolf-check gives a strictly higher score than
\* the same state without the verification.
C7_VerifiedAlwaysHigher ==
    \A p \in Claimants :
        Verified(Belief, p) =>
            LET t == wolf_checks[p]
                score == evaluate_seer_credibility(Belief, p)
            IN  /\ score > evaluate_seer_credibility(NotDead(Belief, t), p)
                /\ score > evaluate_seer_credibility(NotKnown(Belief, t), p)

\* C7, amended: the score is strictly higher as long as fewer than four rival
\* claimants name the claimant in their wolf-checks; from four on, both
\* scores are clamped to 0.0.
C7_VerifiedHigherUnlessClamped ==
    \A p \in Claimants :
        Verified(Belief, p) =>
            LET t == wolf_checks[p]
                score == evaluate_seer_credibility(Belief, p)
                undead == evaluate_seer_credibility(NotDead(Belief, t), p)
                unknown == evaluate_seer_credibility(NotKnown(Belief, t), p)
            IN  IF Cardinality(rival_checks(Belief, p)) < 4
                THEN score > undead /\ score > unknown
                ELSE score = 0 /\ undead = 0 /\ unknown = 0

\* the evaluator has scored a claimant with a verified wolf-check whom three
\* rivals name as the wolf
C7_Witness ==
    /\ cred # EmptyDict
    /\ \E p \in Claimants :
          /\ Verified(Belief, p)
          /\ Cardinality(rival_checks(Belief, p)) = 3
          /\ cred[p] > 0

\* the same belief state without the wolf-check of q
WithoutCheck(b, q) == [b EXCEPT !.wolf_checks = [x \in (DOMAIN @) \ {q} |-> @[x]]]

\* C8: with exactly two claimants P and Q, the entry wolf_checks[Q] = P
\* lowers the score of P by exactly 0.2.
C8_CrossAccusationCosts ==
    \A P, Q \in Claimants :
        (/\ P # Q
         /\ Cardinality(Claimants) = 2
         /\ Q \in DOMAIN wolf_checks
         /\ wolf_checks[Q] = P)
            => evaluate_seer_credibility(Belief, P)
                 = evaluate_seer_credibility(WithoutCheck(Belief, Q), P) - 20

\* the evaluator has scored a claimant whose only rival names it as the wolf,
\* at its lowest: a late seat and a wolf-check that the death did not confirm
C8_Witness ==
    /\ cred # EmptyDict
    /\ \E P, Q \in Claimants :
          /\ P # Q
          /\ Cardinality(Claimants) = 2
          /\ Q \in DOMAIN wolf_checks /\ wolf_checks[Q] = P
          /\ position_term(Belief, P) = -5
          /\ wolf_check_term(Belief, P) = -10
          /\ cred[P] = 5

-----------------------------------------------------------------------------
(* Properties of the Suspicion Engine, checked under SpecVote *)

Suspicion(p) == Get(suspicions, p, 0)

\* C9: no step removes a suspicions entry or lowers its value.
C9_SuspicionNeverDrops ==
    [][\A p \in DOMAIN suspicions :
          p \in DOMAIN suspicions' /\ suspicions'[p] >= suspicions[p]]_vars

\* a score has grown over several vote updates
C9_Witness ==
    /\ TotalLen(voting_history) >= 3
    /\ \E p \in DOMAIN suspicions : suspicions[p] >= 50

\* this step records the second vote of A while D has two recorded votes, and
\* neither ever voted for the other
SecondVoteApart(A, D) ==
    /\ A # D
    /\ A \in DOMAIN voting_history' /\ D \in DOMAIN voting_history'
    /\ Len(voting_history'[A]) = 2
    /\ Len(Get(voting_history, A, <<>>)) = 1
    /\ Len(voting_history'[D]) = 2
    /\ ~InSeq(voting_history'[A], D)
    /\ ~InSeq(voting_history'[D], A)

\* C10, as claimed: the update of that vote raises suspicions[A] and
\* suspicions[D] by 0.15 each.
C10_AvoidanceAddsFifteen ==
    [][\A A, D \in PlayerIds :
          SecondVoteApart(A, D) =>
              /\ Get(suspicions', A, 0) = Suspicion(A) + 15
              /\ Get(suspicions', D, 0) = Suspicion(D) + 15]_vars

\* C10, amended: if D is in alive_players, the update of that vote raises
\* suspicions[A] and suspicions[D] by at least 0.15 each.
C10_AvoidanceAddsAtLeastFifteen ==
    [][\A A, D \in PlayerIds :
          (SecondVoteApart(A, D) /\ InSeq(alive_players', D)) =>
              /\ Get(suspicions', A, 0) >= Suspicion(A) + 15
              /\ Get(suspicions', D, 0) >= Suspicion(D) + 15]_vars

\* the second vote of A has been scored while D, alive, had two votes and the
\* two never voted for each other
C10_Witness ==
    \E A, D \in DOMAIN voting_history :
        /\ A # D
        /\ msg.name = A /\ HasAny(msg.content, VoteGateMarkers)
        /\ Len(voting_history[A]) = 2 /\ Len(voting_history[D]) = 2
        /\ ~InSeq(voting_history[A], D) /\ ~InSeq(voting_history[D], A)
        /\ InSeq(alive_players, D)
        /\ Suspicion(A) >= 15 /\ Suspicion(D) >= 15

-----------------------------------------------------------------------------
(* SpecPhase: nights, days, staged deaths and texts without any marker, *)
(* three players *)

\* a phrase that no pattern of the extractor matches
Hello == "hello"

PhaseModeratorTexts ==
    {<<"new game players are">> \o Trio,
     <<"new game players are", "Player2", "Player2", "Player3">>,
     <<"Night has fallen">>,
     <<"day is coming">>,
     <<"Night has fallen", "day is coming">>,
     <<"Player2", "eliminated">>,
     <<"Player3", "eliminated", "day is coming">>,
     <<Hello>>,
     <<>>}

PhasePlayerTexts ==
    {<<Hello>>,
     <<"day is coming">>,
     <<"vote", "Player3">>}

PhaseModeratorSpeaks ==
    \E c \in PhaseModeratorTexts : Observe(Say(Moderator, c), MaxLifeVotes)

PhasePlayerSpeaks ==
    \E c \in PhasePlayerTexts : Observe(Say("Player2", c), MaxLifeVotes)

NextPhase == PhaseModeratorSpeaks \/ PhasePlayerSpeaks

SpecPhase == Init /\ [][NextPhase]_vars

-----------------------------------------------------------------------------
(* Properties of phase detection, checked under SpecPhase *)

AnnouncesNight(m) == HasAny(m.content, NightMarkers)

\* C13: a message with a night marker sets phase to night, adds exactly 1 to
\* round_num and leaves speech_order at 0; a message without a night marker
\* leaves round_num unchanged.
C13_NightAdvancesRound ==
    [][/\ AnnouncesNight(msg') =>
              /\ phase' = "night"
              /\ round_num' = round_num + 1
              /\ speech_order' = 0
       /\ ~AnnouncesNight(msg') => round_num' = round_num]_vars

\* a second night has begun after a day in which a death was committed
C13_Witness ==
    /\ AnnouncesNight(msg)
    /\ phase = "night"
    /\ round_num = 2
    /\ speech_order = 0
    /\ dead_players # <<>>

-----------------------------------------------------------------------------
(* Order of observation, checked under SpecVote *)

\* the belief state after one more message that announces no roster
Then(b, m) == extract_game_info(b, m, <<>>)

\* A has one recorded vote, for the agent; D has none and is listed alive
OneVoteAhead(A, D) ==
    /\ A # D /\ A # Me /\ D # Me
    /\ A \in DOMAIN voting_history
    /\ voting_history[A] = <<Me>>
    /\ D \notin DOMAIN voting_history
    /\ InSeq(alive_players, D)

\* C14: updates depend on the order of arrival.  From a state where A has
\* voted once (for the agent) and D, alive, has not voted, the messages
\* "A votes for the agent" and "D votes for A" end in different suspicion
\* scores in their two orders: D is 0.15 higher when A's vote comes first.
C14_OrderMatters ==
    \A A, D \in PlayerIds :
        OneVoteAhead(A, D) =>
            LET a_votes == Say(A, <<"vote", Me>>)
                d_votes == Say(D, <<"vote", A>>)
                first_a == Then(Then(Belief, a_votes), d_votes)
                first_d == Then(Then(Belief, d_votes), a_votes)
            IN  /\ first_a.suspicions # first_d.suspicions
                /\ Get(first_a.suspicions, D, 0) = Get(first_d.suspicions, D, 0) + 15
                /\ first_a.voting_history = first_d.voting_history

\* the two messages have been observed, A's vote first: D has been scored for
\* never voting A although its one vote is for A
C14_Witness ==
    \E A, D \in DOMAIN voting_history :
        /\ A # D
        /\ msg = Say(D, <<"vote", A>>)
        /\ voting_history[A] = <<Me, Me>>
        /\ voting_history[D] = <<A>>
        /\ InSeq(alive_players, D)
        /\ Suspicion(D) >= 15

-----------------------------------------------------------------------------
(* Texts without a marker and staged deaths, checked under SpecPhase *)
\* every phrase some pattern of the extractor looks for
MarkerPhrases ==
    OwnRoleMarkers \cup WolfChannelMarkers \cup SeerGateMarkers
      \cup DeathMarkers \cup RosterMarkers \cup NightMarkers \cup DayMarkers
      \cup VotePatternMarkers \cup WolfCheckMarkers \cup AccuseMarkers
      \cup CnIsRolePhrases \cup {"result is", "cn:jieguo shi:"}
      \cup UNION {RolePhrases(RoleOrder[i]) \cup CnRolePhrases(RoleOrder[i]) :
                     i \in 1..Len(RoleOrder)}

\* no marker phrase and no player identifier matches in the message
PatternMiss(m) ==
    \A i \in 1..Len(m.content) :
        m.content[i] \notin MarkerPhrases \cup PlayerIds

\* C15: a message in which no marker phrase and no player identifier matches
\* leaves role, teammates, known_roles, the alive, dead and staged lists,
\* voting_history, the claims, wolf_checks, suspicions, round_num and phase
\* unchanged.
C15_PatternMissChangesNothing ==
    [][PatternMiss(msg') =>
          UNCHANGED <<role, teammates, known_roles, alive_players,
                      dead_players, pending_dead_players, voting_history,
                      claimed_roles, seer_claims, wolf_checks, suspicions,
                      round_num, phase>>]_vars

\* a player's speech without any marker has been observed by day, in a game
\* with a recorded death, a staged death and a recorded vote
C15_Witness ==
    /\ PatternMiss(msg)
    /\ msg.name = "Player2"
    /\ phase = "day"
    /\ speech_order >= 1
    /\ dead_players # <<>>
    /\ pending_dead_players # <<>>
    /\ TotalLen(voting_history) >= 1

\* how often x occurs in the list s
Count(s, x) == Cardinality({i \in 1..Len(s) : s[i] = x})

\* the players staged when the day block of a message runs: those staged
\* before and those the message itself stages
StagedFor(m) ==
    SeqSet(pending_dead_players)
      \cup (IF AnnouncesDeath(m)
            THEN {p \in Named(m) : ~InSeq(dead_players, p)}
            ELSE {})

\* what a message leaves in speech_order after resetting it: the speech of
\* another player is counted at once
CountedSpeech(m) == IF m.name \in PlayerIds \ {Me} THEN 1 ELSE 0

AliveBeforeDay(m) ==
    IF ListsRoster(m) THEN FindPlayers(m.content) ELSE alive_players

-----------------------------------------------------------------------------
(* SpecSeer: role disclosures, the werewolf channel and seer checks, three *)
(* players *)

SeerModeratorTexts ==
    {<<"your role is", "Player1", "seer">>,
     <<"your role is", "Player1", "werewolf">>,
     <<"WEREWOLVES ONLY", "Player1", "Player2">>,
     <<"cn:chayan", "Player2">>,
     <<"You've checked", "Player2", "result is", "villager">>,
     <<"You've checked", "Player3", "result is", "witch">>,
     <<"cn:chayan le", "Player3", "cn:jieguo shi:", "cn:langren">>,
     <<"Player3", "cn:chayan", "cn:shi haoren">>}

SeerPlayerTexts ==
    {<<"Player3", "cn:chayan", "cn:wo shi cunmin">>,
     <<Hello>>}

SeerModeratorSpeaks ==
    \E c \in SeerModeratorTexts : Observe(Say(Moderator, c), MaxLifeVotes)

SeerPlayerSpeaks ==
    \E c \in SeerPlayerTexts : Observe(Say("Player2", c), MaxLifeVotes)

NextSeer == SeerModeratorSpeaks \/ SeerPlayerSpeaks

SpecSeer == Init /\ [][NextSeer]_vars

-----------------------------------------------------------------------------
(* Properties of role, teammates and seer results, checked under SpecSeer *)

\* the message passes the gate of the seer-result block
PassesCheckGate(m) == HasAny(m.content, SeerGateMarkers)

\* the phrases that state a result: "result is", 结果是, and 是 followed by
\* 狼人, 好人, 平民 or 村民 ("Player1是狼人")
ResultMarkers == {"result is", "cn:jieguo shi:", "cn:shi langren",
                  "cn:shi haoren", "cn:shi pingmin", "cn:shi cunmin"}

\* C11: for a seer, a message that passes the check gate and names a player
\* but carries no result marker (and no disclosure of the agent's own role)
\* leaves known_roles unchanged.
C11_RequestRecordsNothing ==
    [][(/\ role = "seer"
        /\ PassesCheckGate(msg')
        /\ Named(msg') # {}
        /\ ~HasAny(msg'.content, ResultMarkers)
        /\ ~HasAny(msg'.content, OwnRoleMarkers))
          => known_roles' = known_roles]_vars

\* C12: once role is set no message changes it.
C12_RoleSetOnce ==
    [][role # NoRole => role' = role]_vars

\* the message carries a marker of the werewolf-only channel
OnWolfChannel(m) == HasAny(m.content, WolfChannelMarkers)

\* the list s begins with the list t
StartsWith(s, t) == Len(t) <= Len(s) /\ SubSeq(s, 1, Len(t)) = t

\* C17: teammates changes only on a werewolf-channel message processed with
\* role werewolf; after such a message every player it names, other than the
\* agent, is a teammate and known as werewolf; teammates never shrinks and
\* never contains the agent.
C17_TeammatesFromWolfChannel ==
    [][/\ teammates' # teammates => (OnWolfChannel(msg') /\ role' = "werewolf")
       /\ (OnWolfChannel(msg') /\ role' = "werewolf") =>
              \A p \in Named(msg') \ {Me} :
                  /\ InSeq(teammates', p)
                  /\ Get(known_roles', p, NoRole) = "werewolf"
       /\ StartsWith(teammates', teammates)
       /\ ~InSeq(teammates', Me)]_vars

\* C18: a message that neither discloses the agent's role nor is on the
\* werewolf channel writes known_roles only while role is seer, and writes
\* only werewolf or villager.
C18_ResultIsWolfOrVillager ==
    [][~(HasAny(msg'.content, OwnRoleMarkers) \/ OnWolfChannel(msg')) =>
          \A p \in DOMAIN known_roles' :
              (p \notin DOMAIN known_roles \/ known_roles'[p] # known_roles[p])
                  => (/\ role = "seer"
                      /\ known_roles'[p] \in {"werewolf", "villager"})]_vars

-----------------------------------------------------------------------------
(* SpecClaims: role claims and wolf-checks in the speeches of two players *)

ClaimTexts ==
    {<<"i am seer">>,
     <<"i am witch">>,
     <<"cn:wo shi yuyanjia">>,
     <<"cn:wo shi yuyanjia", "Player3", "cn:chasha">>,
     <<"Player3", "cn:chasha">>,
     <<"Player2", "Player3", "cn:chasha">>}

PlayerClaims ==
    \E p \in {"Player2", "Player3"} : \E c \in ClaimTexts :
        Observe(Say(p, c), MaxLifeVotes)

NextClaims == PlayerClaims

SpecClaims == Init /\ [][NextClaims]_vars

-----------------------------------------------------------------------------
(* Properties of claim tracking, checked under SpecClaims *)

\* C19: seer_claims only grows at its end, holds no player twice and holds
\* every player whose claimed_roles value is seer.
C19_SeerClaimsAppendOnly ==
    [][/\ StartsWith(seer_claims', seer_claims)
       /\ NoDuplicates(seer_claims')
       /\ \A p \in DOMAIN claimed_roles' :
             claimed_roles'[p] = "seer" => InSeq(seer_claims', p)]_vars

\* Player3 claimed seer first and then witch, Player2 claimed seer after it
\* and repeated the claim
C19_Witness ==
    /\ seer_claims = <<"Player3", "Player2">>
    /\ Get(claimed_roles, "Player3", NoRole) = "witch"
    /\ Get(claimed_roles, "Player2", NoRole) = "seer"
    /\ msg = Say("Player2", <<"cn:wo shi yuyanjia">>)
    /\ "Player2" \in DOMAIN wolf_checks

\* C20: wolf_checks[s] is written only for a player s in seer_claims and
\* never names s itself.
C20_WolfCheckNamesAnother ==
    [][\A s \in DOMAIN wolf_checks' :
          (s \notin DOMAIN wolf_checks \/ wolf_checks'[s] # wolf_checks[s])
              => (InSeq(seer_claims', s) /\ wolf_checks'[s] # s)]_vars

-----------------------------------------------------------------------------
(* SpecRound: votes over two rounds, with the agent as seer or villager, *)
(* three players *)

\* votes recorded at most, over all voters, in the game of SpecRound
MaxRoundVotes == 3

RoundModeratorTexts ==
    {<<"your role is", "Player1", "seer">>,
     <<"You've checked", "Player3", "result is", "werewolf">>,
     <<"your role is", "Player1", "villager">>,
     <<"Night has fallen">>,
     <<"day is coming">>,
     <<"Player2", "eliminated">>}

\* who votes for whom
RoundVotes ==
    {Say("Player1", <<"vote", "Player3">>),
     Say("Player2", <<"vote", "Player3">>),
     Say("Player3", <<"vote", "Player1">>)}

RoundModeratorSpeaks ==
    \E c \in RoundModeratorTexts : Observe(Say(Moderator, c), MaxRoundVotes)

RoundPlayerVotes ==
    \E m \in RoundVotes : Observe(m, MaxRoundVotes)

RoundPlayerSpeaks == Observe(Say("Player2", <<Hello>>), MaxRoundVotes)

NextRound == RoundModeratorSpeaks \/ RoundPlayerVotes \/ RoundPlayerSpeaks

SpecRound == Init /\ [][NextRound]_vars

-----------------------------------------------------------------------------
(* Properties of the rules of the vote update, checked under SpecRound *)

\* the player the message votes for
VotedFor(m) == find_voted(m.content)[1]

\* the belief state on which this step's vote update runs
AtVoteUpdate == before_vote_update(Belief, msg')

\* rules 3, 4 and 5 of the vote update, run on b
rules_from_voted_seer(b, voter, target) ==
    rule_never_vote_each_other(
        detect_vote_coordination(rule_voted_seer(b, voter, target), voter, target),
        voter)

\* the agent is seer and holds a role other than werewolf for the target
ConfirmedInnocent(b, target) ==
    /\ b.role = "seer"
    /\ target \in DOMAIN b.known_roles
    /\ b.known_roles[target] # "werewolf"

\* C21: a vote update adds 0.35 to the voter for voting a confirmed innocent
\* exactly when the agent's role is seer and known_roles holds a role other
\* than werewolf for the target; an agent that is not seer never adds it.
C21_InnocentVoteRule ==
    [][records_vote(msg') =>
          LET voter  == msg'.name
              target == VotedFor(msg')
              b1 == rule_inconsistent_vote(AtVoteUpdate, voter, target)
              b2 == IF ConfirmedInnocent(b1, target)
                    THEN [b1 EXCEPT !.suspicions = AddTo(@, {voter}, 35)]
                    ELSE b1
          IN  suspicions' = rules_from_voted_seer(b2, voter, target).suspicions]_vars

\* the seer has scored a vote for a player it holds a role other than werewolf
\* for, after an earlier vote for a known werewolf
C21_Witness ==
    /\ records_vote(msg)
    /\ ConfirmedInnocent(Belief, VotedFor(msg))
    /\ Suspicion(msg.name) >= 35
    /\ \E v \in DOMAIN voting_history :
           /\ v # msg.name
           /\ \E i \in 1..Len(voting_history[v]) :
                  Get(known_roles, voting_history[v][i], NoRole) = "werewolf"

\* rules 1, 2 and 3 of the vote update, run on b
rules_up_to_voted_seer(b, voter, target) ==
    rule_voted_seer(
        rule_voted_innocent(rule_inconsistent_vote(b, voter, target), voter, target),
        voter, target)

\* the voters not in dead_players whose latest recorded vote names the target
CoVoters(b, target) ==
    {v \in DOMAIN b.voting_history :
        /\ b.voting_history[v] # <<>>
        /\ ~InSeq(b.dead_players, v)
        /\ b.voting_history[v][Len(b.voting_history[v])] = target}

\* at least two of them, on a target whose suspicion is below 0.3
Coordinated(b, target) ==
    /\ Cardinality(CoVoters(b, target)) >= 2
    /\ Get(b.suspicions, target, 0) < 30

C23_EarlierRoundNotCounted ==
    [][(/\ records_vote(msg')
        /\ msg.name = Moderator /\ AnnouncesNight(msg)) =>
          LET voter  == msg'.name
              target == VotedFor(msg')
              b3 == rules_up_to_voted_seer(AtVoteUpdate, voter, target)
          IN  suspicions' = rule_never_vote_each_other(b3, voter).suspicions]_vars

\* C24: the late-round bandwagon rule adds 0.05 only in a vote update in which
\* the coordination condition holds (at least two live co-voters, target
\* suspicion below 0.3) and speech_order is above 3, and only to the co-voters
\* other than the triggering voter and the agent itself.
C24_BandwagonOnlyWhenCoordinated ==
    [][records_vote(msg') =>
          LET voter  == msg'.name
              target == VotedFor(msg')
              b3 == rules_up_to_voted_seer(AtVoteUpdate, voter, target)
              s4 == IF Coordinated(b3, target)
                    THEN AddTo(b3.suspicions, CoVoters(b3, target) \ {Me}, 10)
                    ELSE b3.suspicions
              s5 == IF Coordinated(b3, target) /\ speech_order' > 3
                    THEN AddTo(s4, CoVoters(b3, target) \ {Me, voter}, 5)
                    ELSE s4
          IN  suspicions' =
                  rule_never_vote_each_other([b3 EXCEPT !.suspicions = s5],
                                             voter).suspicions]_vars

-----------------------------------------------------------------------------
(* Further properties of the Credibility Evaluator, checked under SpecCred *)

\* C25: for a claimant with a recorded wolf-check the evaluator adds 0.3 when
\* the named player is in dead_players and known as werewolf, and subtracts
\* 0.1 in every other case, a named player who is still alive included.
C25_WolfCheckAlwaysScored ==
    cred # EmptyDict =>
        \A p \in Claimants \cap DOMAIN wolf_checks :
            cred[p] = Clamp(50 + counter_claim_term(Belief)
                               + (IF Verified(Belief, p) THEN 30 ELSE -10)
                               + position_term(Belief, p)
                               - 20 * Cardinality(rival_checks(Belief, p)))

-----------------------------------------------------------------------------
(* Context builder: _build_context, _get_phase_advice, get_game_state_debug *)
(* A returned text is modelled by the branch that produced it and the      *)
(* values it interpolates.                                                 *)

\* the belief fields, as opposed to the history variables
fields == <<role, teammates, known_roles, suspicions, dead_players,
            pending_dead_players, alive_players, voting_history,
            speech_patterns, round_num, phase, claimed_roles, my_position,
            seer_claims, wolf_checks, speech_order>>

\* _get_position_type
get_position_type(b) ==
    IF b.my_position <= 3 THEN "front"
    ELSE IF b.my_position <= 6 THEN "middle"
    ELSE "back"

\* [p for p in all_players if p not in self.dead_players]
not_dead(b) == {p \in all_players(b) : ~InSeq(b.dead_players, p)}

\* [p for p in all_players if p not in self.dead_players and p not in
\* self.pending_dead_players]
not_dead_nor_pending(b) ==
    {p \in all_players(b) :
        ~InSeq(b.dead_players, p) /\ ~InSeq(b.pending_dead_players, p)}

\* alive_count of _build_context
build_context_alive_count(b) ==
    IF b.alive_players = <<>>
    THEN IF b.phase = "night"
         THEN Cardinality(not_dead(b))
         ELSE Cardinality(not_dead_nor_pending(b))
    ELSE Len(b.alive_players)

\* alive of _get_phase_advice
phase_advice_alive(b) ==
    IF b.alive_players = <<>>
    THEN IF b.phase = "night"
         THEN Cardinality(not_dead(b))
         ELSE Cardinality(not_dead_nor_pending(b))
    ELSE Len(b.alive_players)

\* alive_count of reply
reply_alive_count(b) ==
    IF b.alive_players = <<>>
    THEN IF b.phase = "night"
         THEN Cardinality(not_dead(b))
         ELSE Cardinality(not_dead_nor_pending(b))
    ELSE Len(b.alive_players)

\* a returned hint: the branch and what the text interpolates
Hint(branch, detail) == [hint |-> branch, detail |-> detail]

\* the players max(self.suspicions.items(), key=...) can return: the first
\* entry with the highest score, in the order of the dictionary
top_suspects(b) ==
    {p \in DOMAIN b.suspicions : \A q \in DOMAIN b.suspicions :
        b.suspicions[q] <= b.suspicions[p]}

\* an endgame test that waits for three players
is_endgame_at_three(alive) == alive <= 3

\* "Endgame detection"
is_endgame(alive) == alive <= 4

\* _get_phase_advice
get_phase_advice(b) ==
    LET alive == phase_advice_alive(b)
        pos_type == get_position_type(b)
        has_counter_claim == Len(b.seer_claims) >= 2
    IN  IF is_endgame(alive) THEN Hint("ENDGAME", alive)
        ELSE IF b.role = "werewolf"
        THEN IF b.phase = "night"
             THEN IF b.round_num = 1
                  THEN Hint("Night 1: Kill seer", <<>>)
                  ELSE Hint("Night N: Kill seer > witch > hunter",
                            <<b.round_num, b.teammates>>)
             ELSE IF pos_type = "back" THEN Hint("BACK POSITION", <<>>)
             ELSE IF has_counter_claim THEN Hint("Counter-claim exists!", <<>>)
             ELSE Hint("Day: Act confused", <<>>)
        ELSE IF b.role = "seer"
        THEN LET wolves_found == {p \in DOMAIN b.known_roles :
                                     b.known_roles[p] = "werewolf"}
                 base == IF pos_type = "front" THEN "FRONT SEER"
                         ELSE IF pos_type = "back" THEN "BACK SEER"
                         ELSE "MIDDLE SEER"
             IN  IF wolves_found # {}
                 THEN Hint("WOLF FOUND", <<base, wolves_found>>)
                 ELSE Hint("No badge = credibility from DETAIL and LOGIC", base)
        ELSE IF b.role = "witch"
        THEN IF b.phase = "night"
             THEN IF b.round_num = 1
                  THEN Hint("Night 1 NO-SHERIFF", <<>>)
                  ELSE Hint("Night 2+: MUST use poison", <<>>)
             ELSE IF has_counter_claim THEN Hint("Two seer claims!", <<>>)
             ELSE Hint("No sheriff = you're 50% more important", <<>>)
        ELSE IF b.role = "hunter"
        THEN IF has_counter_claim
             THEN Hint("No badge to protect: Two seers claiming", b.seer_claims)
             ELSE IF b.suspicions # EmptyDict
             THEN Hint("No badge to protect: Top shot target", top_suspects(b))
             ELSE Hint("No badge to protect: Track suspects", <<>>)
        ELSE IF has_counter_claim THEN Hint("Two seers", b.seer_claims)
        ELSE IF pos_type = "back" THEN Hint("BACK VILLAGER", <<>>)
        ELSE Hint("No sheriff = your vote matters equally", <<>>)

\* _build_context: the first line, the "Alive count" part (left out when the
\* count is 0) and the advice; the other parts list fields as they are
build_context(b) ==
    [header |-> <<b.role, b.round_num, b.phase, b.my_position,
                  get_position_type(b),
                  IF b.phase = "day" THEN <<b.speech_order + 1>> ELSE <<>>>>,
     alive_count |-> IF build_context_alive_count(b) # 0
                     THEN <<build_context_alive_count(b)>> ELSE <<>>,
     advice |-> get_phase_advice(b)]

\* get_game_state_debug: the counts of its lines, and "Calculated alive"
\* when alive_players is empty
get_game_state_debug(b) ==
    [alive |-> Len(b.alive_players),
     dead |-> Len(b.dead_players),
     pending |-> Len(b.pending_dead_players),
     calculated |-> IF b.alive_players = <<>>
                    THEN <<Cardinality(not_dead_nor_pending(b))>>
                    ELSE <<>>]

\* a call of _build_context
BuildContext ==
    /\ returned' =
           IF opponent_analysis_raised(Belief, opponent_profiles.profiles) = {}
           THEN [call |-> "_build_context", value |-> build_context(Belief)]
           ELSE [call |-> "_build_context",
                 raised |-> opponent_analysis_raised(
                                Belief, opponent_profiles.profiles)]
    /\ UNCHANGED <<fields, msg, cred, opponent_profiles>>

\* a call of _get_phase_advice that commits the staged deaths on the way
GetPhaseAdviceCommitting ==
    /\ returned' = [call |-> "_get_phase_advice",
                    value |-> get_phase_advice(Belief)]
    /\ dead_players' = dead_players \o pending_dead_players
    /\ pending_dead_players' = <<>>
    /\ UNCHANGED <<role, teammates, known_roles, suspicions, alive_players,
                   voting_history, speech_patterns, round_num, phase,
                   claimed_roles, my_position, seer_claims, wolf_checks,
                   speech_order, msg, cred, opponent_profiles>>

\* a call of _get_phase_advice
GetPhaseAdvice ==
    /\ returned' = [call |-> "_get_phase_advice",
                    value |-> get_phase_advice(Belief)]
    /\ UNCHANGED <<fields, msg, cred, opponent_profiles>>

\* a call of get_game_state_debug
GetGameStateDebug ==
    /\ returned' = [call |-> "get_game_state_debug",
                    value |-> get_game_state_debug(Belief)]
    /\ UNCHANGED <<fields, msg, cred, opponent_profiles>>

-----------------------------------------------------------------------------
(* SpecAdvice: the calls that read the belief state, made in the states    *)
(* the agent is in after a script of messages: a roster, its role, what    *)
(* it learnt, seer claims, a death, the phases of up to two rounds, a      *)
(* later death, an accusation and a vote.                                  *)

\* the belief state after the messages of a script, none of which announces
\* an empty roster
RECURSIVE After(_, _)
After(b, script) ==
    IF script = <<>> THEN b ELSE After(Then(b, Head(script)), Tail(script))

Five == <<"Player1", "Player2", "Player3", "Player4", "Player5">>

InitAdvice ==
    LET
        AdviceRosters ==
            {<<>>,
             <<Say(Moderator, <<"new game players are">> \o Five)>>,
             <<Say(Moderator, <<"new game players are", "Player2", "Player3",
                                "Player4", "Player1", "Player5">>)>>,
             <<Say(Moderator, <<"new game players are">> \o Reverse(Nine))>>}

        AdviceRoles ==
            {<<>>} \cup {<<Say(Moderator, <<"your role is", Me, RoleOrder[i]>>)>> :
                            i \in 1..Len(RoleOrder)}

        AdviceSecrets ==
            {<<>>,
             <<Say(Moderator, <<"You've checked", "Player3", "result is", "werewolf">>)>>,
             <<Say(Moderator, <<"WEREWOLVES ONLY">> \o Five)>>}

        AdviceClaims ==
            {<<>>,
             <<Say("Player2", <<"i am seer">>)>>,
             <<Say("Player2", <<"i am seer">>), Say("Player3", <<"i am seer">>)>>}

        AdviceDeaths ==
            {<<>>,
             <<Say(Moderator, <<"Player5", "eliminated">>)>>,
             <<Say(Moderator, <<"Player1", "eliminated">>)>>,
             <<Say(Moderator, <<"Player5", "Player6", "Player7", "Player8",
                                "Player9", "eliminated">>)>>}

        AdvicePhases ==
            LET night == Say(Moderator, <<"Night has fallen">>)
                day   == Say(Moderator, <<"day is coming">>)
            IN  {<<>>, <<night>>, <<night, day>>, <<night, day, night>>}

        AdviceLateDeaths ==
            {<<>>, <<Say(Moderator, <<"Player3", "eliminated">>)>>}

        AdviceVotes ==
            {<<>>,
             <<Say("Player2", <<"Player3", "suspicious">>),
               Say("Player2", <<"vote", "Player4">>)>>}
    IN
    \E r \in AdviceRosters, o \in AdviceRoles, k \in AdviceSecrets,
       c \in AdviceClaims, d \in AdviceDeaths, ph \in AdvicePhases,
       l \in AdviceLateDeaths, v \in AdviceVotes :
        \E b1 \in {After(InitialBelief, r \o o \o k)} :
        \E b2 \in {After(b1, c \o d)} :
        \E b3 \in {After(b2, ph)} :
            LET script == r \o o \o k \o c \o d \o ph \o l \o v
            IN  /\ Is(After(b3, l \o v))
                /\ msg = IF script = <<>> THEN NoMsg ELSE script[Len(script)]
                /\ cred = EmptyDict
                /\ returned = NothingReturned
                /\ opponent_profiles = NotFollowed

NextAdvice ==
    \/ BuildContext
    \/ GetPhaseAdvice
    \/ GetGameStateDebug
    \/ EvaluateSeerCredibility

SpecAdvice == InitAdvice /\ [][NextAdvice]_vars

-----------------------------------------------------------------------------
(* reply: the context it builds and the length of the text it returns.     *)
(* The language-model call is an input: the length of the text it returns. *)

\* len(p.split("Player")[1])
IdDigits(p) == IF p = LongId THEN MaxIdDigits ELSE 1

\* self.confusion_templates: the length of each template without its fields,
\* and how often it has {num} and {target}
ConfusionTemplates ==
    <<[len |-> 83, num |-> 1, target |-> 0],
      [len |-> 58, num |-> 1, target |-> 0],
      [len |-> 62, num |-> 0, target |-> 0],
      [len |-> 72, num |-> 1, target |-> 0],
      [len |-> 84, num |-> 1, target |-> 0],
      [len |-> 76, num |-> 1, target |-> 0],
      [len |-> 82, num |-> 1, target |-> 1]>>

\* other_players of _generate_confusion_content
other_players(b) ==
    IF b.alive_players = <<>>
    THEN IF b.phase = "night"
         THEN not_dead(b) \ {Me}
         ELSE not_dead_nor_pending(b) \ {Me}
    ELSE SeqSet(b.alive_players) \ {Me}

\* the lengths _generate_confusion_content can return: 0 for "", else
\* len("\n\n") plus the length of a template filled with the numbers of
\* two players chosen at random (of one player, if there is only one)
confusion_lengths(b) ==
    {0} \cup
    {2 + ConfusionTemplates[i].len
       + ConfusionTemplates[i].num * IdDigits(player_num)
       + ConfusionTemplates[i].target * IdDigits(target_player) :
         i \in 1..Len(ConfusionTemplates),
         player_num \in other_players(b), target_player \in other_players(b)}

\* len(text[:k])
SliceLen(n, k) ==
    IF k >= 0 THEN (IF n <= k THEN n ELSE k)
    ELSE (IF n + k >= 0 THEN n + k ELSE 0)

\* the length limit of a speech
SpeechLimit == 2048

\* the length of the text of the message reply returns, for a response text
\* of length text_len and a confusion text of length confusion_len
reply_length(text_len, confusion_len, structured) ==
    IF ~structured
    THEN IF text_len + confusion_len > SpeechLimit
         THEN SliceLen(text_len, SpeechLimit - confusion_len - 3) + 3 + confusion_len
         ELSE text_len + confusion_len
    ELSE IF text_len > SpeechLimit THEN SpeechLimit ELSE text_len

\* the lengths of the response text of the language model
ReplyTextLengths == {0, 1, 2040, 2048, 2049, 4000}

\* reply(msg, structured_model), for a response that is not None
Reply ==
    \E has_msg \in BOOLEAN, structured \in BOOLEAN, text_len \in ReplyTextLengths :
    \E confusion_len \in IF structured THEN {0} ELSE confusion_lengths(Belief) :
        LET analysed == has_msg /\ role # NoRole
            alive_count == reply_alive_count(Belief)
        IN  /\ returned' =
                   IF /\ analysed
                      /\ opponent_analysis_raised(
                             Belief, opponent_profiles.profiles) # {}
                   THEN [call |-> "reply",
                         raised |-> opponent_analysis_raised(
                                        Belief, opponent_profiles.profiles)]
                   ELSE
                   [call |-> "reply",
                    value |->
                        [context |-> IF analysed THEN <<build_context(Belief)>>
                                     ELSE <<>>,
                         alive_count |-> IF analysed THEN <<alive_count>> ELSE <<>>,
                         warning |-> IF analysed /\ alive_count = 0
                                     THEN <<get_game_state_debug(Belief)>>
                                     ELSE <<>>,
                         structured |-> structured,
                         text |-> text_len,
                         confusion |-> confusion_len,
                         length |-> reply_length(text_len, confusion_len,
                                                 structured)]]
            /\ UNCHANGED <<fields, msg, cred, opponent_profiles>>

\* SpecReply: reply and the calls it makes, in belief states reached by a
\* roster (none, five players, or the agent and a player with a long id), a
\* role, a seer's check, a death and the phase announcements.
InitReply ==
    LET
        ReplyRosters ==
            {<<>>,
             <<Say(Moderator, <<"new game players are">> \o Five)>>,
             <<Say(Moderator, <<"new game players are", Me, LongId>>)>>}

        ReplyRoles ==
            {<<>>,
             <<Say(Moderator, <<"your role is", Me, "seer">>)>>,
             <<Say(Moderator, <<"your role is", Me, "villager">>)>>}

        ReplySecrets ==
            {<<>>,
             <<Say(Moderator, <<"You've checked", "Player3", "result is", "werewolf">>)>>}

        ReplyPhases ==
            LET night == Say(Moderator, <<"Night has fallen">>)
                day   == Say(Moderator, <<"day is coming">>)
            IN  {<<>>, <<night>>, <<night, day>>}

        ReplyDeaths ==
            {<<>>,
             <<Say(Moderator, <<"Player1", "eliminated">>)>>,
             <<Say(Moderator, <<"Player3", "eliminated">>)>>}
    IN
    \E r \in ReplyRosters, o \in ReplyRoles, k \in ReplySecrets,
       ph \in ReplyPhases, d \in ReplyDeaths :
        \E b1 \in {After(InitialBelief, r \o o \o k)} :
            LET script == r \o o \o k \o ph \o d
            IN  /\ Is(After(b1, ph \o d))
                /\ msg = IF script = <<>> THEN NoMsg ELSE script[Len(script)]
                /\ cred = EmptyDict
                /\ returned = NothingReturned
                /\ opponent_profiles = NotFollowed

NextReply ==
    \/ Reply
    \/ BuildContext
    \/ GetPhaseAdvice
    \/ GetGameStateDebug

SpecReply == InitReply /\ [][NextReply]_vars


-----------------------------------------------------------------------------
(* Properties of the context builder, checked under SpecAdvice.            *)

\* C26: a call of _evaluate_seer_credibility, _build_context,
\* _get_phase_advice or get_game_state_debug leaves every field of the
\* belief state as it was.
C26_ReadsLeaveBeliefUnchanged ==
    [][(cred' # cred
        \/ (/\ returned' # returned
            /\ returned'.call \in {"_build_context", "_get_phase_advice",
                                   "get_game_state_debug"}))
       => fields' = fields]_vars

\* a context has been built and a claimant scored, in a belief state with a
\* death on record, a staged death, a suspect and a vote
C26_Witness ==
    /\ returned.call = "_build_context"
    /\ cred # EmptyDict
    /\ dead_players # <<>>
    /\ pending_dead_players # <<>>
    /\ DOMAIN suspicions # {}
    /\ voting_history # <<>>

\* the branches _get_phase_advice can return for a role when it is not the
\* endgame
RoleBranches(r) ==
    CASE r = "werewolf" -> {"Night 1: Kill seer",
                            "Night N: Kill seer > witch > hunter",
                            "BACK POSITION", "Counter-claim exists!",
                            "Day: Act confused"}
      [] r = "seer"     -> {"WOLF FOUND",
                            "No badge = credibility from DETAIL and LOGIC"}
      [] r = "witch"    -> {"Night 1 NO-SHERIFF", "Night 2+: MUST use poison",
                            "Two seer claims!",
                            "No sheriff = you're 50% more important"}
      [] r = "hunter"   -> {"No badge to protect: Two seers claiming",
                            "No badge to protect: Top shot target",
                            "No badge to protect: Track suspects"}
      [] OTHER          -> {"Two seers", "BACK VILLAGER",
                            "No sheriff = your vote matters equally"}

\* the advice in what the last call returned, if it holds one
AdviceReturned ==
    CASE returned.call = "_get_phase_advice" -> <<returned.value>>
      [] returned.call = "_build_context"    -> <<returned.value.advice>>
      [] OTHER                               -> <<>>

\* C27: _get_phase_advice returns the endgame hint exactly when the alive
\* count it computes is at most 4, whatever the role, the phase and the
\* position; when the count exceeds 4 the hint is one of the role's own.
C27_EndgameFirst ==
    \A a \in SeqSet(AdviceReturned) :
        /\ a.hint = "ENDGAME" <=> phase_advice_alive(Belief) <= 4
        /\ a.hint = "ENDGAME" => a.detail = phase_advice_alive(Belief)
        /\ a.hint # "ENDGAME" => a.hint \in RoleBranches(role)

\* a werewolf who speaks in the back, by day, with exactly four players of
\* the roster left, is given the endgame hint
C27_Witness ==
    /\ returned.call = "_get_phase_advice"
    /\ returned.value.hint = "ENDGAME"
    /\ role = "werewolf"
    /\ phase = "day"
    /\ Len(alive_players) = 4
    /\ get_position_type(Belief) = "back"

-----------------------------------------------------------------------------
(* Properties of the fallback count and of reply, checked under SpecReply. *)

\* the known identifiers that are neither dead nor staged
KnownAlive ==
    {p \in DOMAIN known_roles \cup SeqSet(teammates) \cup {Me} :
        ~InSeq(dead_players, p) /\ ~InSeq(pending_dead_players, p)}

\* C28: when alive_players is empty, the alive count of _build_context, of
\* _get_phase_advice and of reply is the number of known identifiers that are
\* neither dead nor staged, by night as by day, and get_game_state_debug
\* reports the same number.
C28_FallbackCountExcludesStaged ==
    alive_players = <<>> =>
        LET n == Cardinality(KnownAlive)
        IN  /\ returned.call = "_build_context" =>
                /\ returned.value.alive_count = IF n = 0 THEN <<>> ELSE <<n>>
                /\ returned.value.advice.hint = "ENDGAME" =>
                       returned.value.advice.detail = n
            /\ returned.call = "_get_phase_advice" =>
                   (returned.value.hint = "ENDGAME" => returned.value.detail = n)
            /\ returned.call = "reply" =>
                   /\ \A c \in SeqSet(returned.value.alive_count) : c = n
                   /\ returned.value.warning # <<>> <=>
                          (returned.value.alive_count # <<>> /\ n = 0)
            /\ returned.call = "get_game_state_debug" =>
                   returned.value.calculated = <<n>>

\* C30: the text of the message reply returns has at most 2048 characters,
\* in the discussion branch and in the structured-output branch.
C30_ReplyWithinLimit ==
    returned.call = "reply" => returned.value.length <= SpeechLimit

-----------------------------------------------------------------------------
(* Determinism of the Extractor.                                           *)

\* SpecFallback: a game whose roster announcement names no player, so that
\* the roster is taken from the identifiers the agent knows.
FallbackModeratorTexts ==
    {<<"new game players are">>,
     <<"new game players are">> \o Trio,
     <<"your role is", Me, "seer">>,
     <<"You've checked", "Player3", "result is", "werewolf">>,
     <<"You've checked", "Player2", "result is", "villager">>,
     <<"WEREWOLVES ONLY", "Player4", "Player5">>,
     <<"Night has fallen">>,
     <<"day is coming">>,
     <<"Player3", "eliminated">>}

FallbackModeratorSpeaks ==
    \E c \in FallbackModeratorTexts : Observe(Say(Moderator, c), MaxLifeVotes)

FallbackPlayerSpeaks ==
    \E c \in {<<Hello>>, <<"vote", "Player3">>} :
        Observe(Say("Player2", c), MaxLifeVotes)

NextFallback == FallbackModeratorSpeaks \/ FallbackPlayerSpeaks

SpecFallback == Init /\ [][NextFallback]_vars

\* C29: the Extractor is deterministic.  Two agents of the same name in the
\* same belief state that observe the same message reach the same belief
\* state, the order of alive_players and my_position included: whatever order
\* list(all_players) takes, the message leads to the state reached.
C29_SameMessageSameBelief ==
    [][\A fallback \in FallbackLists(before_roster(Belief, msg'), msg'.content) :
           Becomes(extract_game_info(Belief, msg', fallback))]_vars

-----------------------------------------------------------------------------
(* SpecTrust: a seer among five players, two seer claimants, a death and   *)
(* a vote for a claimant.                                                  *)

TrustModeratorSpeaks ==
    \E c \in {<<"new game players are">> \o Five,
              <<"your role is", Me, "seer">>,
              <<"You've checked", "Player3", "result is", "werewolf">>,
              <<"Player3", "eliminated">>,
              <<"day is coming">>} :
        Observe(Say(Moderator, c), MaxLifeVotes)

TrustPlayerSpeaks ==
    \E m \in {Say("Player2", <<"i am seer", "Player3", "wolf">>),
              Say("Player4", <<"i am seer">>),
              Say("Player4", <<"vote", "Player2">>)} :
        Observe(m, MaxLifeVotes)

NextTrust == TrustModeratorSpeaks \/ TrustPlayerSpeaks

SpecTrust == Init /\ [][NextTrust]_vars

\* C31: in every reachable state a score of _evaluate_seer_credibility(p)
\* above 0.6 implies that wolf_checks[p] names a player who is in dead_players
\* and whose known_roles value is werewolf; so the vote update adds the 0.3
\* for voting a credible seer only when the target is a claimant with such a
\* wolf-check.
C31_TrustNeedsVerifiedCheck ==
    [][/\ \A p \in SeqSet(seer_claims') :
             evaluate_seer_credibility(Belief', p) > 60 => Verified(Belief', p)
       /\ (records_vote(msg') /\ voting_history' # voting_history) =>
             LET voter  == msg'.name
                 target == VotedFor(msg')
                 b2 == rule_voted_innocent(
                           rule_inconsistent_vote(AtVoteUpdate, voter, target),
                           voter, target)
                 b3 == IF /\ InSeq(b2.seer_claims, target)
                          /\ Verified(b2, target)
                          /\ evaluate_seer_credibility(b2, target) > 60
                       THEN [b2 EXCEPT !.suspicions = AddTo(@, {voter}, 30)]
                       ELSE b2
             IN  suspicions' =
                     rule_never_vote_each_other(
                         detect_vote_coordination(b3, voter, target),
                         voter).suspicions]_vars

\* a vote for a claimant whose wolf-check is verified has been scored with
\* the 0.3, the claimant's score being above 0.6
C31_Witness ==
    /\ records_vote(msg)
    /\ InSeq(seer_claims, VotedFor(msg))
    /\ evaluate_seer_credibility(Belief, VotedFor(msg)) > 60
    /\ Verified(Belief, VotedFor(msg))
    /\ Suspicion(msg.name) >= 30

-----------------------------------------------------------------------------
(* What a player's speech may change.                                      *)

\* C32: a message whose speaker is a player never changes role, teammates,
\* known_roles, pending_dead_players, dead_players, alive_players,
\* my_position, phase or round_num, whatever its text contains.
C32_PlayersChangeNoAuthoritativeField ==
    [][StartsWithPlayer(msg'.name) =>
          UNCHANGED <<role, teammates, known_roles, pending_dead_players,
                      dead_players, alive_players, my_position, phase,
                      round_num>>]_vars

-----------------------------------------------------------------------------
(* SpecProfile: the speeches of one opponent are profiled, and the profile  *)
(* is read by predict_opponent_role and by _build_context.                  *)

InitProfile ==
    /\ Is(InitialBelief) /\ msg = NoMsg /\ cred = EmptyDict
    /\ returned = NothingReturned /\ opponent_profiles = NoProfiles

ProfileModeratorSpeaks ==
    \E c \in {<<"new game players are">> \o Trio, <<"day is coming">>} :
        Observe(Say(Moderator, c), MaxLifeVotes)

ProfilePlayerSpeaks ==
    \E c \in {<<Hello>>,
              <<"i am seer">>,
              <<"Player3", "wolf">>,
              <<"must", "definitely", "liar">>,
              <<"maybe", "perhaps", "not sure", LongFilling>>,
              <<"i am seer", "obviously", "clearly", "fake", "maybe">>} :
        Observe(Say("Player2", c), MaxLifeVotes)

\* a call of predict_opponent_role
PredictOpponentRole ==
    /\ \E speaker \in {"Player2", "Player3"} :
           returned' =
               LET r == predict_opponent_role(opponent_profiles.profiles, speaker)
               IN  IF r.raised = <<>>
                   THEN [call |-> "predict_opponent_role", value |-> r.scores]
                   ELSE [call |-> "predict_opponent_role", raised |-> {r.raised}]
    /\ UNCHANGED <<fields, msg, cred, opponent_profiles>>

NextProfile ==
    \/ ProfileModeratorSpeaks
    \/ ProfilePlayerSpeaks
    \/ PredictOpponentRole
    \/ BuildContext

SpecProfile == InitProfile /\ [][NextProfile]_vars

\* the sum of the values of a dictionary
RECURSIVE SumOf(_)
SumOf(d) ==
    IF DOMAIN d = {} THEN 0
    ELSE LET k == CHOOSE k \in DOMAIN d : TRUE
         IN  d[k] + SumOf([x \in (DOMAIN d) \ {k} |-> d[x]])

\* C33: predict_opponent_role returns a probability mapping for every
\* profile that _update_opponent_profile can build and never ends in an
\* error, so _build_context always yields a context.
C33_PredictionNeverRaises ==
    /\ returned.call \in {"predict_opponent_role", "_build_context"} =>
           "raised" \notin DOMAIN returned
    /\ (returned.call = "predict_opponent_role" /\ "value" \in DOMAIN returned) =>
           /\ \A k \in DOMAIN returned.value : returned.value[k] >= 0
           /\ SumOf(returned.value) > 0

-----------------------------------------------------------------------------
(* Deaths announced during the day, checked under SpecPhase *)

\* C34: a player announced as eliminated during the day phase is in
\* dead_players and no longer in alive_players once the next message with a
\* night marker has been processed, so the alive count used during that night
\* excludes the player.
C34_DayDeathCommittedByNight ==
    [][(phase = "day" /\ AnnouncesNight(msg')) =>
          \A p \in SeqSet(pending_dead_players) :
              InSeq(dead_players', p) /\ ~InSeq(alive_players', p)]_vars

-----------------------------------------------------------------------------
(* SpecPending: deaths are staged and committed; the moderator opens a day  *)
(* in every round of the game, so the day announcement is taken under weak  *)
(* fairness.                                                                *)

PendingModeratorSpeaks ==
    \E c \in {<<"new game players are">> \o Trio,
              <<"new game players are", "Player2", "Player2", "Player3">>,
              <<"Player2", "eliminated">>,
              <<"Player3", "died">>,
              <<"Night has fallen">>,
              <<"Night has fallen", "day is coming">>} :
        Observe(Say(Moderator, c), MaxLifeVotes)

\* the moderator announces the day
DayBreaks == Observe(Say(Moderator, <<"day is coming">>), MaxLifeVotes)

NextPending == PendingModeratorSpeaks \/ DayBreaks

SpecPending == Init /\ [][NextPending]_vars /\ WF_vars(DayBreaks)

\* C35: every player placed in pending_dead_players is eventually in
\* dead_players and absent from alive_players, given that a day announcement
\* is eventually observed.
C35_StagedEventuallyDead ==
    \A p \in {"Player2", "Player3"} :
        InSeq(pending_dead_players, p)
            ~> (InSeq(dead_players, p) /\ ~InSeq(alive_players, p))

-----------------------------------------------------------------------------
(* The agent's own suspicion score, checked under SpecVote *)

\* C36: no vote update increases the agent's own suspicion score:
\* suspicions has no entry for the agent, or the entry is 0, after any
\* sequence of observed votes.
C36_OwnSuspicionStaysZero ==
    Me \in DOMAIN suspicions => suspicions[Me] = 0

-----------------------------------------------------------------------------
(* SpecSameMessage: speeches that accuse a player and vote in one message,  *)
(* five players                                                             *)

SameMessageModeratorSpeaks ==
    \E c \in {<<"new game players are">> \o Five,
              <<"day is coming">>,
              <<"Night has fallen">>} :
        ObserveWithin(Say(Moderator, c), MaxLifeVotes, MaxAccusationsKept)

SameMessagePlayerSpeaks ==
    \E p \in {"Player2", "Player3"} :
        \E c \in {<<"Player4", "wolf">>,
                  <<"vote", "Player5", "suspicious">>,
                  <<"vote", "Player4", "wolf">>,
                  <<"vote", "Player5">>} :
            ObserveWithin(Say(p, c), MaxLifeVotes, MaxAccusationsKept)

NextSameMessage == SameMessageModeratorSpeaks \/ SameMessagePlayerSpeaks

SpecSameMessage == Init /\ [][NextSameMessage]_vars

\* the message of another player records a vote and accuses the player it
\* votes for
AccusesAndVotes(m) ==
    /\ records_vote(m) /\ m.name # Me
    /\ find_accused(m.content) = <<VotedFor(m)>>

\* C37, as claimed: the vote update of a message that accuses X and votes for
\* X adds no 0.25 for a vote that departs from the voter's accusations: the
\* update is the one of rules 2 to 5.
C37_OwnAccusationCountsFirst ==
    [][AccusesAndVotes(msg') =>
          suspicions' =
              rules_from_voted_seer(
                  rule_voted_innocent(AtVoteUpdate, msg'.name, VotedFor(msg')),
                  msg'.name, VotedFor(msg')).suspicions]_vars

\* C37, amended: the vote of a message that accuses X and votes for X is
\* scored against the accusations of the voter's earlier messages only, and
\* adds 0.25 exactly when there are some and none of them names X; the
\* accusation of the message itself is recorded after the vote update.
C37_EarlierAccusationsOnly ==
    [][AccusesAndVotes(msg') =>
          LET voter   == msg'.name
              target  == VotedFor(msg')
              earlier == IF voter \in DOMAIN speech_patterns
                         THEN accused_by(Belief, voter) ELSE {}
              scored  == IF earlier # {} /\ target \notin earlier
                         THEN [AtVoteUpdate EXCEPT
                                  !.suspicions = AddTo(@, {voter}, 25)]
                         ELSE AtVoteUpdate
          IN  /\ suspicions' =
                     rules_from_voted_seer(
                         rule_voted_innocent(scored, voter, target),
                         voter, target).suspicions
              /\ speech_patterns'[voter] =
                     Append(Get(speech_patterns, voter, <<>>), Accused(target))]_vars

\* a player who had accused Player4 has accused Player5 and voted for Player5
\* in one message, and carries the 0.25
C37_Witness ==
    /\ AccusesAndVotes(msg)
    /\ VotedFor(msg) = "Player5"
    /\ speech_patterns[msg.name] = <<Accused("Player4"), Accused("Player5")>>
    /\ Suspicion(msg.name) = 25

====
